---- MODULE Spec2Model ----
(***************************************************************************)
(* Model of the Costory Terraform provider's API client                    *)
(* (internal/costoryapi) and of the resource handlers built on it.         *)
(*                                                                         *)
(* Spec: the transport primitive doJSON with its retry loop and            *)
(* cancellable backoff, the client operations that map a final HTTP status *)
(* to an outcome, and the resource Read, Update and Delete handlers.  One  *)
(* caller at a time runs one operation against a backend whose responses   *)
(* (status, body, transport faults) are chosen freely.                     *)
(*                                                                         *)
(* PureSpec: the client's pure functions (request payloads, response       *)
(* decoding and normalization, the unexpected-status message), each        *)
(* applied to one input drawn from a bounded set.                          *)
(***************************************************************************)
EXTENDS Integers, Sequences, FiniteSets, TLC

VARIABLES
    urlOK,      \* the configured base URL parses (http.NewRequestWithContext succeeds)
    handler,    \* resource handler running the call: "none" for a direct client call
    op,         \* client operation in progress
    id,         \* datasourceID argument of a by-id operation, "" otherwise
    ctxDone,    \* the caller's context is cancelled or timed out
    doneAt,     \* where the call stood when its context ended: "" while live, "call", "inflight", "backoff"
    pc,         \* "idle", "inflight" (httpClient.Do running), "backoff" (blocked in waitForRetry), "returned"
    attempt,    \* doJSON's loop variable
    wire,       \* requests handed to httpClient.Do by the current operation, in order
    resps,      \* responses received by the current operation, in order
    waits,      \* backoff waits entered by the current operation (the attempt each followed)
    fault,      \* transport failure met by the current operation: "none", "do", "read", "close"
    ret,        \* doJSON's return value (body, status, err)
    out,        \* the client operation's return value (val, err)
    diags,      \* diagnostics raised by the resource handler
    prevDelete, \* id whose Delete handler ended without an error diagnostic in the call just before, else ""
    tfstate,    \* resp.State of the resource handler: the stored Terraform state it hands back
    trail,      \* client calls the running handler completed before the current one, with what they returned
    calc,       \* a pure function under evaluation: its name, its input and its result
    parked      \* the operation running concurrently on the same Client, while the other one takes a step

clientVars == <<urlOK, handler, op, id, ctxDone, doneAt, pc, attempt, wire, resps, waits, fault, ret, out, diags,
               prevDelete, tfstate, trail, parked>>

vars == <<urlOK, handler, op, id, ctxDone, doneAt, pc, attempt, wire, resps, waits, fault, ret, out, diags, prevDelete,
          tfstate, trail, calc, parked>>

----------------------------------------------------------------------------
(* Program constants *)

maxRetryAttempts == 4

StatusOK == 200
StatusNoContent == 204
StatusMultipleChoices == 300
StatusNotFound == 404
StatusInternalServerError == 500

----------------------------------------------------------------------------
(* Response bodies.  A body is the byte string read from the response; it  *)
(* is kept as its raw text class and, when it is a JSON object, the fields *)
(* the decoders look at.  Absent marks a key the object does not carry.    *)

Absent == "<absent>"

NoFields == [id |-> Absent, status |-> Absent, error |-> Absent, reason |-> Absent]

\* json: "object" (a JSON object), "null" (the literal null), "invalid"
\* (anything json.Unmarshal rejects for a struct target, the empty body included)
NilBody   == [json |-> "invalid", raw |-> "<nil>", f |-> NoFields]
EmptyBody == [json |-> "invalid", raw |-> "", f |-> NoFields]
TextBody  == [json |-> "invalid", raw |-> "boom", f |-> NoFields]
NullBody  == [json |-> "null", raw |-> "null", f |-> NoFields]
ObjBody(fields) == [json |-> "object", raw |-> "{...}", f |-> fields]

IDs == {"ds-1", "ds/2"}

Bodies ==
    { EmptyBody, TextBody, NullBody,
      ObjBody(NoFields),
      ObjBody([NoFields EXCEPT !.id = ""]),
      ObjBody([NoFields EXCEPT !.id = "ds-1"]),
      ObjBody([NoFields EXCEPT !.id = "ds/2"]),
      ObjBody([NoFields EXCEPT !.id = "ds-1", !.status = "PENDING"]),
      ObjBody([NoFields EXCEPT !.status = "ACTIVE"]),
      ObjBody([NoFields EXCEPT !.error = "aws_access_denied", !.reason = "Cannot access bucket"]) }

Statuses == {101, 200, 201, 202, 204, 302, 403, 404, 499, 500, 503}

IsServerError(status) == status >= StatusInternalServerError

\* what the backend may answer one request with: every non-5xx status with
\* every body, and two 5xx answers that differ in status and in body
Responses ==
    { [status |-> s, body |-> b] : s \in {s \in Statuses : ~IsServerError(s)}, b \in Bodies }
    \cup
    { [status |-> 500, body |-> TextBody], [status |-> 503, body |-> EmptyBody] }

----------------------------------------------------------------------------
(* Go and Terraform values *)

\* a Go pointer: nil, or the address of a value
Nil == <<>>
Ptr(v) == <<v>>

\* a types.String / types.Bool attribute: null, unknown, or a known value;
\* ValueString / ValueBool give the zero value unless it is known
AttrNull(zero) == [is |-> "null", v |-> zero]
AttrUnknown(zero) == [is |-> "unknown", v |-> zero]
AttrValue(v) == [is |-> "value", v |-> v]

----------------------------------------------------------------------------
(* Errors *)

Err(kind) == [kind |-> kind, code |-> 0, body |-> NilBody]

NilErr == Err("nil")
ErrNotFound == Err("costory resource not found")
ErrCreateRequest == Err("create request")
ErrExecuteRequest == Err("execute request")
ErrReadBody == Err("read response body")
ErrCloseBody == Err("close response body")
ErrRetryCanceled == Err("retry canceled: ctx.Err()")
ErrRetriesExhausted == Err("request retries exhausted")
ErrDecode == Err("decode response body")
ErrMissingID == Err("create response did not include datasource id")

\* variant: the error carries the status code only
unexpectedStatusError_StatusOnly(statusCode, body) ==
    [kind |-> "unexpected status code", code |-> statusCode, body |-> NilBody]

unexpectedStatusError(statusCode, body) ==
    [kind |-> "unexpected status code", code |-> statusCode, body |-> body]

----------------------------------------------------------------------------
(* Endpoint contracts and dispatch *)

ClientOps ==
    { "GetServiceAccount",
      "ValidateGCPBillingDatasource", "CreateGCPBillingDatasource", "GetGCPBillingDatasource",
      "ValidateAWSBillingDatasource", "CreateAWSBillingDatasource", "GetAWSBillingDatasource",
      "DeleteBillingDatasource" }

ByIDOps == { "GetGCPBillingDatasource", "GetAWSBillingDatasource", "DeleteBillingDatasource" }
ValidateOps == { "ValidateGCPBillingDatasource", "ValidateAWSBillingDatasource" }
CreateOps == { "CreateGCPBillingDatasource", "CreateAWSBillingDatasource" }
GetOps == { "GetGCPBillingDatasource", "GetAWSBillingDatasource" }

\* variant: a read by id is sent as a POST
endpointMethod_GetByPost(o) ==
    IF o \in ValidateOps \cup CreateOps \cup GetOps THEN "POST"
    ELSE IF o = "DeleteBillingDatasource" THEN "DELETE"
    ELSE "GET"

endpointMethod(o) ==
    IF o \in ValidateOps \cup CreateOps THEN "POST"
    ELSE IF o = "DeleteBillingDatasource" THEN "DELETE"
    ELSE "GET"

routeServiceAccount == "/terraform/"
routeBillingDatasourceBase == "/terraform/billingDatasources"
routeBillingDatasourceValidate == "/terraform/billingDatasources/validate"

\* url.PathEscape on the ids the model uses: a slash becomes %2F, and an id
\* of letters, digits and hyphens is left as it is
PathEscape(s) == IF s = "ds/2" THEN "ds%2F2" ELSE s

\* variant: the id is put into the path as it is
endpointPath_RawID(o, i) ==
    IF o = "GetServiceAccount" THEN <<routeServiceAccount>>
    ELSE IF o \in ValidateOps THEN <<routeBillingDatasourceValidate>>
    ELSE IF o \in CreateOps THEN <<routeBillingDatasourceBase>>
    ELSE <<routeBillingDatasourceBase, "/", i>>

\* the path of an endpoint, as the strings it is concatenated from
endpointPath(o, i) ==
    IF o = "GetServiceAccount" THEN <<routeServiceAccount>>
    ELSE IF o \in ValidateOps THEN <<routeBillingDatasourceValidate>>
    ELSE IF o \in CreateOps THEN <<routeBillingDatasourceBase>>
    ELSE <<routeBillingDatasourceBase, "/", PathEscape(i)>>

\* requestTransportJSONBody for validate and create, requestTransportNone otherwise
endpointHasBody(o) == o \in ValidateOps \cup CreateOps

\* the token the client was constructed with
token == "<token>"

\* variant: every request is labelled as JSON
requestHeader_AlwaysContentType(hasPayload) ==
    ("Accept" :> "application/json")
    @@ ("Authorization" :> <<"Bearer ", token>>)
    @@ ("Content-Type" :> "application/json")

\* the header fields doJSON sets on each request it builds
requestHeader(hasPayload) ==
    ("Accept" :> "application/json")
    @@ ("Authorization" :> <<"Bearer ", token>>)
    @@ (IF hasPayload THEN "Content-Type" :> "application/json" ELSE <<>>)

\* the request one attempt of doJSON hands to httpClient.Do
NewRequest(o, i) ==
    [method |-> endpointMethod(o), path |-> endpointPath(o, i), hasBody |-> endpointHasBody(o),
     header |-> requestHeader(endpointHasBody(o))]

----------------------------------------------------------------------------
(* Transport primitive: the pieces of Client.doJSON *)

DoJSONReturn(body, status, err) == [body |-> body, status |-> status, err |-> err]
NoReturn == DoJSONReturn(NilBody, 0, Err("<pending>"))

\* variants of the retry condition with a plausible slip each
ShouldRetry_StopsOneEarly(status, n) ==
    status >= StatusInternalServerError /\ n < maxRetryAttempts - 2

ShouldRetry_RetriesClientErrors(status, n) ==
    status >= 400 /\ n < maxRetryAttempts - 1

ShouldRetry_RetriesNotFound(status, n) ==
    (status >= StatusInternalServerError \/ status = StatusNotFound) /\ n < maxRetryAttempts - 1

ShouldRetry_WaitsAfterLastAttempt(status, n) ==
    status >= StatusInternalServerError /\ n < maxRetryAttempts

\* the retry condition checked after a response was read and closed
ShouldRetry(status, n) ==
    status >= StatusInternalServerError /\ n < maxRetryAttempts - 1

\* variant: the error of Body.Close is dropped
attemptError_IgnoresClose(doErr, readErr, closeErr) ==
    IF doErr THEN ErrExecuteRequest
    ELSE IF readErr THEN ErrReadBody
    ELSE NilErr

\* the error checks that follow httpClient.Do, io.ReadAll and Body.Close,
\* in the order the code makes them
attemptError(doErr, readErr, closeErr) ==
    IF doErr THEN ErrExecuteRequest
    ELSE IF readErr THEN ErrReadBody
    ELSE IF closeErr THEN ErrCloseBody
    ELSE NilErr

\* which of the three calls failed first (history only)
faultKind(doErr, readErr, closeErr) ==
    IF doErr THEN "do" ELSE IF readErr THEN "read" ELSE IF closeErr THEN "close" ELSE "none"

\* the unit of the backoff, in milliseconds
backoffBaseMs == 500

\* variant: the backoff grows by one unit per attempt
backoff_Linear(n) == (n + 1) * backoffBaseMs

\* waitForRetry's timer after attempt n, in milliseconds: (1 << n) * 500ms
backoff(n) == (2 ^ n) * backoffBaseMs

\* the time the timers armed by the waits ws run for, in milliseconds; a
\* wait that is cancelled ends before its timer does
RECURSIVE TotalBackoff(_)
TotalBackoff(ws) == IF ws = <<>> THEN 0 ELSE backoff(Head(ws)) + TotalBackoff(Tail(ws))

\* waitForRetry's select when it is entered: the timer was just armed with
\* a backoff of at least 500ms, so only ctx.Done() can be ready
waitForRetryReady(done) == done

\* variant: the wait sleeps through a cancellation
waitForRetryTimer_IgnoresCtx(done) == TRUE

\* waitForRetry's select while it is blocked: the first event wakes it, so
\* the timer case is taken only while ctx.Done() has not been closed
waitForRetryTimer(done) == ~done

----------------------------------------------------------------------------
(* Decoding and the client operations' status mapping *)

NoVal == [ID |-> "<nil>"]

\* json.Unmarshal(body, &out) for a datasource response, then
\* toGCPBillingDatasource / toAWSBillingDatasource; of the datasource the
\* ID and the Status are kept
decodeDatasource(body) ==
    IF body.json = "invalid" THEN [ok |-> FALSE, val |-> NoVal]
    ELSE [ok |-> TRUE,
          val |-> [ID |-> IF body.f.id = Absent THEN "" ELSE body.f.id,
                   Status |-> IF body.f.status = Absent THEN Nil ELSE Ptr(body.f.status)]]

Result(val, err) == [val |-> val, err |-> err]
NoResult == Result(NoVal, Err("<pending>"))

GetServiceAccount(r) ==
    IF r.err # NilErr THEN Result(NoVal, r.err)
    ELSE IF r.status # StatusOK THEN Result(NoVal, unexpectedStatusError(r.status, r.body))
    ELSE IF r.body.json = "invalid" THEN Result(NoVal, ErrDecode)
    ELSE Result([ID |-> "<service account>"], NilErr)

\* variant: validation succeeds on 200 only
ValidateBillingDatasource_OnlyOK(r) ==
    IF r.err # NilErr THEN Result(NoVal, r.err)
    ELSE IF r.status = StatusOK THEN Result(NoVal, NilErr)
    ELSE Result(NoVal, unexpectedStatusError(r.status, r.body))

\* ValidateGCPBillingDatasource / ValidateAWSBillingDatasource
ValidateBillingDatasource(r) ==
    IF r.err # NilErr THEN Result(NoVal, r.err)
    ELSE IF r.status >= StatusOK /\ r.status < StatusMultipleChoices THEN Result(NoVal, NilErr)
    ELSE Result(NoVal, unexpectedStatusError(r.status, r.body))

\* variant: the created id is not checked
CreateBillingDatasource_NoIDCheck(r) ==
    IF r.err # NilErr THEN Result(NoVal, r.err)
    ELSE IF r.status < StatusOK \/ r.status >= StatusMultipleChoices
         THEN Result(NoVal, unexpectedStatusError(r.status, r.body))
    ELSE IF ~decodeDatasource(r.body).ok THEN Result(NoVal, ErrDecode)
    ELSE Result(decodeDatasource(r.body).val, NilErr)

CreateBillingDatasource(r) ==
    IF r.err # NilErr THEN Result(NoVal, r.err)
    ELSE IF r.status < StatusOK \/ r.status >= StatusMultipleChoices
         THEN Result(NoVal, unexpectedStatusError(r.status, r.body))
    ELSE IF ~decodeDatasource(r.body).ok THEN Result(NoVal, ErrDecode)
    ELSE IF decodeDatasource(r.body).val.ID = "" THEN Result(NoVal, ErrMissingID)
    ELSE Result(decodeDatasource(r.body).val, NilErr)

\* variant: the decoded datasource is returned as it is
GetBillingDatasource_NoIDFill(datasourceID, r) ==
    IF r.err # NilErr THEN Result(NoVal, r.err)
    ELSE IF r.status = StatusNotFound THEN Result(NoVal, ErrNotFound)
    ELSE IF r.status # StatusOK THEN Result(NoVal, unexpectedStatusError(r.status, r.body))
    ELSE IF ~decodeDatasource(r.body).ok THEN Result(NoVal, ErrDecode)
    ELSE Result(decodeDatasource(r.body).val, NilErr)

\* variant: a read accepts every 2xx status
GetBillingDatasource_Any2xx(datasourceID, r) ==
    IF r.err # NilErr THEN Result(NoVal, r.err)
    ELSE IF r.status = StatusNotFound THEN Result(NoVal, ErrNotFound)
    ELSE IF r.status < StatusOK \/ r.status >= StatusMultipleChoices
         THEN Result(NoVal, unexpectedStatusError(r.status, r.body))
    ELSE IF ~decodeDatasource(r.body).ok THEN Result(NoVal, ErrDecode)
    ELSE IF decodeDatasource(r.body).val.ID = ""
         THEN Result([decodeDatasource(r.body).val EXCEPT !.ID = datasourceID], NilErr)
    ELSE Result(decodeDatasource(r.body).val, NilErr)

\* variant: the 200 check comes before the 404 check
GetBillingDatasource_OKCheckFirst(datasourceID, r) ==
    IF r.err # NilErr THEN Result(NoVal, r.err)
    ELSE IF r.status # StatusOK THEN Result(NoVal, unexpectedStatusError(r.status, r.body))
    ELSE IF ~decodeDatasource(r.body).ok THEN Result(NoVal, ErrDecode)
    ELSE IF decodeDatasource(r.body).val.ID = ""
         THEN Result([decodeDatasource(r.body).val EXCEPT !.ID = datasourceID], NilErr)
    ELSE Result(decodeDatasource(r.body).val, NilErr)

GetBillingDatasource(datasourceID, r) ==
    IF r.err # NilErr THEN Result(NoVal, r.err)
    ELSE IF r.status = StatusNotFound THEN Result(NoVal, ErrNotFound)
    ELSE IF r.status # StatusOK THEN Result(NoVal, unexpectedStatusError(r.status, r.body))
    ELSE IF ~decodeDatasource(r.body).ok THEN Result(NoVal, ErrDecode)
    ELSE IF decodeDatasource(r.body).val.ID = ""
         THEN Result([decodeDatasource(r.body).val EXCEPT !.ID = datasourceID], NilErr)
    ELSE Result(decodeDatasource(r.body).val, NilErr)

\* variant: a delete accepts every 2xx status
DeleteBillingDatasource_Any2xx(r) ==
    IF r.err # NilErr THEN Result(NoVal, r.err)
    ELSE IF r.status = StatusNotFound THEN Result(NoVal, ErrNotFound)
    ELSE IF r.status >= StatusOK /\ r.status < StatusMultipleChoices THEN Result(NoVal, NilErr)
    ELSE Result(NoVal, unexpectedStatusError(r.status, r.body))

DeleteBillingDatasource(r) ==
    IF r.err # NilErr THEN Result(NoVal, r.err)
    ELSE IF r.status = StatusNotFound THEN Result(NoVal, ErrNotFound)
    ELSE IF r.status = StatusNoContent \/ r.status = StatusOK THEN Result(NoVal, NilErr)
    ELSE Result(NoVal, unexpectedStatusError(r.status, r.body))

\* what operation o makes of doJSON's return r
ClientOp(o, i, r) ==
    IF o = "GetServiceAccount" THEN GetServiceAccount(r)
    ELSE IF o \in ValidateOps THEN ValidateBillingDatasource(r)
    ELSE IF o \in CreateOps THEN CreateBillingDatasource(r)
    ELSE IF o \in GetOps THEN GetBillingDatasource(i, r)
    ELSE DeleteBillingDatasource(r)

----------------------------------------------------------------------------
(* Resource handlers *)

DeleteHandlers == { "gcpResource.Delete", "awsResource.Delete" }
ReadHandlers == { "gcpResource.Read", "awsResource.Read" }
UpdateHandlers == { "gcpResource.Update", "awsResource.Update" }
CreateHandlers == { "gcpResource.Create", "awsResource.Create" }

Handlers == DeleteHandlers \cup ReadHandlers \cup UpdateHandlers \cup CreateHandlers

\* the handlers of the GCP resource; the others are the AWS resource's
GCPHandlers == { "gcpResource.Create", "gcpResource.Read", "gcpResource.Update", "gcpResource.Delete" }

\* the client operation a handler calls first
handlerOp(h) ==
    CASE h \in DeleteHandlers -> "DeleteBillingDatasource"
      [] h = "gcpResource.Read" -> "GetGCPBillingDatasource"
      [] h = "awsResource.Read" -> "GetAWSBillingDatasource"
      [] h = "gcpResource.Create" -> "ValidateGCPBillingDatasource"
      [] h = "awsResource.Create" -> "CreateAWSBillingDatasource"
      [] OTHER -> "none"

\* the client operation handler h calls once its call of o has returned
\* without error, "none" when it makes no further call: gcpResource.Create
\* validates and then creates, awsResource.Create creates and then reads
\* the created datasource back
nextOp(h, o) ==
    IF h = "gcpResource.Create" /\ o = "ValidateGCPBillingDatasource" THEN "CreateGCPBillingDatasource"
    ELSE IF h = "awsResource.Create" /\ o = "CreateAWSBillingDatasource" THEN "GetAWSBillingDatasource"
    ELSE "none"

\* the id that call is made with: created.ID for the read after a create
nextID(h, o, res) == IF nextOp(h, o) \in ByIDOps THEN res.val.ID ELSE ""

\* variant: the next call is made whatever the first one returned
Continues_IgnoresError(h, o, res) == nextOp(h, o) # "none"

\* handler h, whose call of o returned res, goes on to its next client call
Continues(h, o, res) == nextOp(h, o) # "none" /\ res.err = NilErr

DiagUnconfigured == [severity |-> "error", summary |-> "Unconfigured Costory client"]

\* req.State.Get could not decode the stored state into the resource model
DiagStateGet == [severity |-> "error", summary |-> "State.Get"]

\* req.Plan.Get could not decode the plan into the resource model
DiagPlanGet == [severity |-> "error", summary |-> "Plan.Get"]

\* variant: every delete error becomes an error diagnostic
DeleteDiags_NotFoundIsError(h, res) ==
    IF res.err # NilErr
    THEN { [severity |-> "error",
            summary |-> IF h = "gcpResource.Delete"
                        THEN "Unable to delete GCP billing datasource"
                        ELSE "Unable to delete AWS billing datasource"] }
    ELSE {}

\* the tail of gcpResource.Delete / awsResource.Delete: an error that is not
\* ErrNotFound becomes an error diagnostic
DeleteDiags(h, res) ==
    IF res.err # NilErr /\ res.err # ErrNotFound
    THEN { [severity |-> "error",
            summary |-> IF h = "gcpResource.Delete"
                        THEN "Unable to delete GCP billing datasource"
                        ELSE "Unable to delete AWS billing datasource"] }
    ELSE {}

\* variant: a read that finds nothing is reported like any other failure
ReadDiags_NotFoundIsError(h, res) ==
    IF res.err # NilErr
    THEN { [severity |-> "error",
            summary |-> IF h = "gcpResource.Read"
                        THEN "Unable to read GCP billing datasource"
                        ELSE "Unable to read AWS billing datasource"] }
    ELSE {}

\* the tail of gcpResource.Read / awsResource.Read: an error that is not
\* ErrNotFound becomes an error diagnostic
ReadDiags(h, res) ==
    IF res.err # NilErr /\ res.err # ErrNotFound
    THEN { [severity |-> "error",
            summary |-> IF h = "gcpResource.Read"
                        THEN "Unable to read GCP billing datasource"
                        ELSE "Unable to read AWS billing datasource"] }
    ELSE {}

\* variant: an update is accepted silently
UpdateDiags_Accepts == {}

\* gcpResource.Update / awsResource.Update
UpdateDiags == { [severity |-> "error", summary |-> "Update not supported"] }

\* variant: a refresh that fails after the create fails the Create
CreateDiags_RefreshFailureIsError(h, o, res) ==
    IF res.err = NilErr THEN {}
    ELSE IF o = "ValidateGCPBillingDatasource"
         THEN { [severity |-> "error", summary |-> "Unable to validate GCP billing datasource"] }
    ELSE IF o = "CreateGCPBillingDatasource"
         THEN { [severity |-> "error", summary |-> "Unable to create GCP billing datasource"] }
    ELSE IF o = "CreateAWSBillingDatasource"
         THEN { [severity |-> "error", summary |-> "Unable to create AWS billing datasource"] }
    ELSE IF res.err = ErrNotFound
         THEN { [severity |-> "warning", summary |-> "Created datasource not yet readable"] }
    ELSE { [severity |-> "error", summary |-> "Unable to refresh datasource after create"] }

\* the diagnostic gcpResource.Create / awsResource.Create raises when its
\* call of o returned res: a failed validate or create is an error, a failed
\* read after the AWS create is a warning
CreateDiags(h, o, res) ==
    IF res.err = NilErr THEN {}
    ELSE IF o = "ValidateGCPBillingDatasource"
         THEN { [severity |-> "error", summary |-> "Unable to validate GCP billing datasource"] }
    ELSE IF o = "CreateGCPBillingDatasource"
         THEN { [severity |-> "error", summary |-> "Unable to create GCP billing datasource"] }
    ELSE IF o = "CreateAWSBillingDatasource"
         THEN { [severity |-> "error", summary |-> "Unable to create AWS billing datasource"] }
    ELSE IF res.err = ErrNotFound
         THEN { [severity |-> "warning", summary |-> "Created datasource not yet readable"] }
    ELSE { [severity |-> "warning", summary |-> "Unable to refresh datasource after create"] }

HandlerDiags(h, o, res) ==
    IF h \in DeleteHandlers THEN DeleteDiags(h, res)
    ELSE IF h \in ReadHandlers THEN ReadDiags(h, res)
    ELSE IF h \in CreateHandlers THEN CreateDiags(h, o, res)
    ELSE {}

\* gcpResourceModel.mergeAPIResponse, on the fields the model m holds: a
\* field the response populates (a non-empty string, a non-nil pointer) is
\* overwritten, every other field is left as it was.  The client hands the
\* handlers no nil response together with a nil error.
gcpResourceModel_mergeAPIResponse(m, api) ==
    [ f \in DOMAIN m |->
        IF f \in {"ID", "Name", "BQTablePath"}
        THEN (IF api[f] # "" THEN AttrValue(api[f]) ELSE m[f])
        ELSE IF f \in {"IsDetailedBilling", "StartDate", "EndDate"}
        THEN (IF api[f] # Nil THEN AttrValue(api[f][1]) ELSE m[f])
        ELSE m[f] ]

\* variant: the status is kept when the response has none
awsResourceModel_mergeAPIResponse_KeepsStatus(m, api) ==
    [ f \in DOMAIN m |->
        IF f = "Status"
        THEN (IF api[f] # Nil THEN AttrValue(api[f][1]) ELSE m[f])
        ELSE IF f \in {"ID", "Name", "BucketName", "RoleARN", "Prefix"}
        THEN (IF api[f] # "" THEN AttrValue(api[f]) ELSE m[f])
        ELSE IF f \in {"EKSSplitDataEnabled", "StartDate", "EndDate", "EKSSplit"}
        THEN (IF api[f] # Nil THEN AttrValue(api[f][1]) ELSE m[f])
        ELSE m[f] ]

\* awsResourceModel.mergeAPIResponse, on the fields the model m holds: as
\* for GCP, but the status is first set to null
awsResourceModel_mergeAPIResponse(m, api) ==
    [ f \in DOMAIN m |->
        IF f = "Status"
        THEN (IF api[f] # Nil THEN AttrValue(api[f][1]) ELSE AttrNull(""))
        ELSE IF f \in {"ID", "Name", "BucketName", "RoleARN", "Prefix"}
        THEN (IF api[f] # "" THEN AttrValue(api[f]) ELSE m[f])
        ELSE IF f \in {"EKSSplitDataEnabled", "StartDate", "EndDate", "EKSSplit"}
        THEN (IF api[f] # Nil THEN AttrValue(api[f][1]) ELSE m[f])
        ELSE m[f] ]

mergeAPIResponse(h, m, api) ==
    IF h \in GCPHandlers THEN gcpResourceModel_mergeAPIResponse(m, api)
    ELSE awsResourceModel_mergeAPIResponse(m, api)

\* the tail of Read after the merge: an ID that is null or unknown is set
\* from the response
fillID(m, api) == IF m.ID.is # "value" THEN [m EXCEPT !.ID = AttrValue(api.ID)] ELSE m

\* Of a resource model the state machine follows the ID and the Status (an
\* attribute the GCP resource does not have: it stays null there).
\* StoredModel(i): the model of a resource stored under id i; PlanModel: the
\* model of a plan, its computed attributes not yet known.
StoredModel(i) == [ID |-> AttrValue(i), Status |-> AttrNull("")]
PlanModel(h) ==
    [ID |-> AttrUnknown(""), Status |-> IF h \in GCPHandlers THEN AttrNull("") ELSE AttrUnknown("")]

\* resp.State.Set(ctx, &m): the resource is tracked with the model's values
StateSet(m) == [tracked |-> TRUE, ID |-> m.ID.v, Status |-> m.Status]

\* the stored state of a resource: tracked with its id, or gone
Tracked(i) == StateSet(StoredModel(i))
Removed == [tracked |-> FALSE, ID |-> ""]
NoState == [tracked |-> FALSE, ID |-> "<no resource>"]

\* resp.State as the framework hands it to handler h: the prior state,
\* which a Create does not have
PriorState(h, i) == IF h \in DeleteHandlers \cup ReadHandlers \cup UpdateHandlers THEN Tracked(i) ELSE NoState

\* resp.State when gcpResource.Read / awsResource.Read returns:
\* RemoveResource on ErrNotFound, untouched on any other error, else the
\* stored model after mergeAPIResponse
ReadState(h, i, res) ==
    IF res.err = ErrNotFound THEN Removed
    ELSE IF res.err # NilErr THEN Tracked(i)
    ELSE StateSet(fillID(mergeAPIResponse(h, StoredModel(i), res.val), res.val))

\* the plan after "plan.ID = created.ID; plan.mergeAPIResponse(created)"
CreatedModel(h, created) ==
    mergeAPIResponse(h, [PlanModel(h) EXCEPT !.ID = AttrValue(created.ID)], created)

\* resp.State when gcpResource.Create / awsResource.Create returns from its
\* call of o with res, t being the calls it made before: nothing is written
\* when the validate or the create failed; the GCP Create writes the plan
\* merged with the create response; the AWS Create writes it after merging
\* the refresh read as well when that read succeeded
CreateState(h, o, res, t) ==
    IF o = "CreateGCPBillingDatasource" /\ res.err = NilErr THEN StateSet(CreatedModel(h, res.val))
    ELSE IF o = "GetAWSBillingDatasource" /\ res.err = NilErr
         THEN StateSet(mergeAPIResponse(h, CreatedModel(h, t[Len(t)].out.val), res.val))
    ELSE IF o = "GetAWSBillingDatasource" THEN StateSet(CreatedModel(h, t[Len(t)].out.val))
    ELSE NoState

\* resp.State when handler h returns; Delete and Update never touch it
HandlerState(h, o, i, res, t) ==
    IF h \in ReadHandlers THEN ReadState(h, i, res)
    ELSE IF h \in CreateHandlers THEN CreateState(h, o, res, t)
    ELSE PriorState(h, i)

HasError(ds) == \E d \in ds : d.severity = "error"

----------------------------------------------------------------------------
(* Pure functions are evaluated one input at a time in calc *)

Calc(fn, in) == [fn |-> fn, in |-> in, out |-> "", done |-> FALSE]
NoCalc == Calc("none", "")

----------------------------------------------------------------------------
(* The state machine *)

\* what belongs to one operation in progress: its arguments, the locals of
\* doJSON and of the operation, and what it returns
Locals ==
    [ handler |-> handler, op |-> op, id |-> id, ctxDone |-> ctxDone, doneAt |-> doneAt, pc |-> pc,
      attempt |-> attempt, wire |-> wire, resps |-> resps, waits |-> waits, fault |-> fault,
      ret |-> ret, out |-> out, diags |-> diags, tfstate |-> tfstate, trail |-> trail ]

NoCall ==
    [ handler |-> "none", op |-> "none", id |-> "", ctxDone |-> FALSE, doneAt |-> "", pc |-> "idle",
      attempt |-> 0, wire |-> <<>>, resps |-> <<>>, waits |-> <<>>, fault |-> "none",
      ret |-> NoReturn, out |-> NoResult, diags |-> {}, tfstate |-> NoState, trail |-> <<>> ]

\* no call is in progress
ClientIdle ==
    /\ parked = NoCall
    /\ handler = "none"
    /\ op = "none"
    /\ id = ""
    /\ ctxDone = FALSE
    /\ doneAt = ""
    /\ pc = "idle"
    /\ attempt = 0
    /\ wire = <<>>
    /\ resps = <<>>
    /\ waits = <<>>
    /\ fault = "none"
    /\ ret = NoReturn
    /\ out = NoResult
    /\ diags = {}
    /\ prevDelete = ""
    /\ tfstate = NoState
    /\ trail = <<>>

Init ==
    /\ urlOK \in BOOLEAN
    /\ ClientIdle
    /\ calc = NoCalc

\* iteration n of doJSON's loop, run for operation o of handler h, hands its
\* request to httpClient.Do; w, rs and ws are the requests, responses and
\* waits of this call so far, t the calls the handler made before it
Send(h, o, i, n, w, rs, ws, t) ==
    /\ op' = o
    /\ id' = i
    /\ attempt' = n
    /\ wire' = Append(w, NewRequest(o, i))
    /\ resps' = rs
    /\ waits' = ws
    /\ fault' = "none"
    /\ trail' = t
    /\ pc' = "inflight"
    /\ ret' = NoReturn
    /\ out' = NoResult
    /\ diags' = {}
    /\ tfstate' = PriorState(h, i)

\* doJSON returns r to operation o (n, w, rs, ws, f: the call's loop variable,
\* requests, responses, waits and fault at that point), which returns to
\* handler h; the handler then makes its next client call, whose first
\* request is built from the same base URL as the requests before it, or
\* returns itself
Return(h, o, i, r, n, w, rs, ws, f) ==
    IF Continues(h, o, ClientOp(o, i, r))
    THEN Send(h, nextOp(h, o), nextID(h, o, ClientOp(o, i, r)), 0, <<>>, <<>>, <<>>,
              Append(trail, [op |-> o, out |-> ClientOp(o, i, r)]))
    ELSE /\ op' = o
         /\ id' = i
         /\ attempt' = n
         /\ wire' = w
         /\ resps' = rs
         /\ waits' = ws
         /\ fault' = f
         /\ trail' = trail
         /\ pc' = "returned"
         /\ ret' = r
         /\ out' = ClientOp(o, i, r)
         /\ diags' = HandlerDiags(h, o, ClientOp(o, i, r))
         /\ tfstate' = HandlerState(h, o, i, ClientOp(o, i, r), trail)

\* the head of iteration n of doJSON's loop: build the request and hand it to
\* httpClient.Do, or fall out of the loop
Attempt(n, h, o, i, w, rs, ws, f) ==
    IF n >= maxRetryAttempts
    THEN Return(h, o, i, DoJSONReturn(NilBody, 0, ErrRetriesExhausted), n, w, rs, ws, f)
    ELSE IF ~urlOK
    THEN Return(h, o, i, DoJSONReturn(NilBody, 0, ErrCreateRequest), n, w, rs, ws, f)
    ELSE Send(h, o, i, n, w, rs, ws, trail)

\* what the caller remembers of the call that just ended
DeletedJustNow ==
    IF handler \in DeleteHandlers /\ ~HasError(diags) THEN id ELSE ""

\* the call that ended is over: nothing of it is left for the next call but
\* what the caller remembers
FinishCall ==
    /\ pc = "returned"
    /\ pc' = "idle"
    /\ prevDelete' = DeletedJustNow
    /\ handler' = "none"
    /\ op' = "none"
    /\ id' = ""
    /\ ctxDone' = FALSE
    /\ doneAt' = ""
    /\ attempt' = 0
    /\ wire' = <<>>
    /\ resps' = <<>>
    /\ waits' = <<>>
    /\ fault' = "none"
    /\ ret' = NoReturn
    /\ out' = NoResult
    /\ diags' = {}
    /\ tfstate' = NoState
    /\ trail' = <<>>
    /\ UNCHANGED urlOK

\* the caller takes the results of the call that ended and is free to call again
Finish == FinishCall /\ UNCHANGED <<calc, parked>>

\* a caller invokes client operation o directly; json.Marshal of the request
\* structs (strings and optional bools and strings) cannot fail
Call(o, i, c) ==
    /\ pc = "idle"
    /\ handler' = "none"
    /\ ctxDone' = c
    /\ doneAt' = IF c THEN "call" ELSE ""
    /\ Attempt(0, "none", o, IF o \in ByIDOps THEN i ELSE "", <<>>, <<>>, <<>>, "none")
    /\ UNCHANGED <<urlOK, prevDelete, calc, parked>>

\* Terraform invokes handler h, for the stored id i when the resource has
\* one: the handler returns at once when the provider gave it no client or
\* the stored state (the plan, for a Create) does not decode
Invoke(h, i, configured, stateOK, c) ==
    /\ pc = "idle"
    /\ handler' = h
    /\ ctxDone' = c
    /\ doneAt' = IF c THEN "call" ELSE ""
    /\ IF ~configured \/ ~stateOK
       THEN /\ op' = "none"
            /\ id' = i
            /\ pc' = "returned"
            /\ attempt' = 0
            /\ wire' = <<>>
            /\ resps' = <<>>
            /\ waits' = <<>>
            /\ fault' = "none"
            /\ trail' = <<>>
            /\ ret' = NoReturn
            /\ out' = NoResult
            /\ diags' = IF ~configured THEN {DiagUnconfigured}
                        ELSE IF h \in CreateHandlers THEN {DiagPlanGet}
                        ELSE {DiagStateGet}
            /\ tfstate' = PriorState(h, i)
       ELSE Attempt(0, h, handlerOp(h), i, <<>>, <<>>, <<>>, "none")
    /\ UNCHANGED <<urlOK, prevDelete, calc, parked>>

Delete(h, i, configured, stateOK, c) ==
    h \in DeleteHandlers /\ Invoke(h, i, configured, stateOK, c)

Read(h, i, configured, stateOK, c) ==
    h \in ReadHandlers /\ Invoke(h, i, configured, stateOK, c)

\* Terraform invokes gcpResource.Create / awsResource.Create with a plan
Create(h, configured, planOK, c) ==
    h \in CreateHandlers /\ Invoke(h, "", configured, planOK, c)

\* Terraform invokes gcpResource.Update / awsResource.Update for the stored
\* id i: the handler reads neither the client nor the request
Update(h, i, c) ==
    /\ pc = "idle"
    /\ h \in UpdateHandlers
    /\ handler' = h
    /\ op' = "none"
    /\ id' = i
    /\ ctxDone' = c
    /\ doneAt' = IF c THEN "call" ELSE ""
    /\ pc' = "returned"
    /\ attempt' = 0
    /\ wire' = <<>>
    /\ resps' = <<>>
    /\ waits' = <<>>
    /\ fault' = "none"
    /\ trail' = <<>>
    /\ ret' = NoReturn
    /\ out' = NoResult
    /\ diags' = UpdateDiags
    /\ tfstate' = PriorState(h, i)
    /\ UNCHANGED <<urlOK, prevDelete, calc, parked>>

\* one attempt completes: httpClient.Do returns doErr or the response resp,
\* whose body is then read (readErr) and closed (closeErr)
RoundTrip(doErr, resp, readErr, closeErr) ==
    /\ pc = "inflight"
    /\ IF attemptError(doErr, readErr, closeErr) # NilErr
       THEN Return(handler, op, id, DoJSONReturn(NilBody, 0, attemptError(doErr, readErr, closeErr)),
                   attempt, wire, resps, waits, faultKind(doErr, readErr, closeErr))
       ELSE IF ShouldRetry(resp.status, attempt)
       THEN IF waitForRetryReady(ctxDone)
            THEN Return(handler, op, id, DoJSONReturn(NilBody, 0, ErrRetryCanceled),
                        attempt, wire, Append(resps, resp), Append(waits, attempt),
                        faultKind(doErr, readErr, closeErr))
            ELSE /\ pc' = "backoff"
                 /\ resps' = Append(resps, resp)
                 /\ waits' = Append(waits, attempt)
                 /\ fault' = faultKind(doErr, readErr, closeErr)
                 /\ UNCHANGED <<op, id, attempt, wire, trail, ret, out, diags, tfstate>>
       ELSE Return(handler, op, id, DoJSONReturn(resp.body, resp.status, NilErr),
                   attempt, wire, Append(resps, resp), waits, faultKind(doErr, readErr, closeErr))
    /\ UNCHANGED <<urlOK, handler, ctxDone, doneAt, prevDelete, calc, parked>>

\* the backoff timer fires while waitForRetry is blocked: next iteration
TimerFires ==
    /\ pc = "backoff"
    /\ waitForRetryTimer(ctxDone)
    /\ Attempt(attempt + 1, handler, op, id, wire, resps, waits, fault)
    /\ UNCHANGED <<urlOK, handler, ctxDone, doneAt, prevDelete, calc, parked>>

\* the caller cancels the context, or its deadline passes
Cancel ==
    /\ pc \in {"inflight", "backoff"}
    /\ ~ctxDone
    /\ ctxDone' = TRUE
    /\ doneAt' = pc
    /\ UNCHANGED <<urlOK, handler, op, id, pc, attempt, wire, resps, waits, fault, ret, out, diags, prevDelete,
                   tfstate, trail, calc, parked>>

\* waitForRetry, blocked, is woken by ctx.Done()
WaitCanceled ==
    /\ pc = "backoff"
    /\ ctxDone
    /\ Return(handler, op, id, DoJSONReturn(NilBody, 0, ErrRetryCanceled), attempt, wire, resps, waits, fault)
    /\ UNCHANGED <<urlOK, handler, ctxDone, doneAt, prevDelete, calc, parked>>

Next ==
    \/ \E o \in ClientOps, i \in IDs, c \in BOOLEAN : Call(o, i, c)
    \/ Finish
    \/ \E h \in DeleteHandlers, i \in IDs, configured \in BOOLEAN, stateOK \in BOOLEAN, c \in BOOLEAN :
           Delete(h, i, configured, stateOK, c)
    \/ \E h \in ReadHandlers, i \in IDs, configured \in BOOLEAN, stateOK \in BOOLEAN, c \in BOOLEAN :
           Read(h, i, configured, stateOK, c)
    \/ \E h \in CreateHandlers, configured \in BOOLEAN, planOK \in BOOLEAN, c \in BOOLEAN :
           Create(h, configured, planOK, c)
    \/ \E h \in UpdateHandlers, i \in IDs, c \in BOOLEAN : Update(h, i, c)
    \/ \E doErr \in BOOLEAN, resp \in Responses, readErr \in BOOLEAN, closeErr \in BOOLEAN :
           RoundTrip(doErr, resp, readErr, closeErr)
    \/ TimerFires
    \/ Cancel
    \/ WaitCanceled

Spec == Init /\ [][Next]_vars

----------------------------------------------------------------------------
(* Request payloads: resource model -> request struct -> API request -> JSON. *)
(* The AWS resource and the client with AWS support are one revision; the    *)
(* GCP resource of provider.go goes with the earlier client (client.go),     *)
(* whose definitions carry the suffix V1.                                    *)

billingDatasourceTypeGCPV1 == "gcp"
billingDatasourceTypeGCP == "GCP"
billingDatasourceTypeAWS == "AWS"

\* if !a.IsNull() && !a.IsUnknown() { value := a.Value...(); req.X = &value }
OptionalPtr(a) == IF a.is = "value" THEN Ptr(a.v) ELSE Nil

gcpResourceModel_toRequestModel(m) ==
    [ Name |-> m.Name.v,
      BQTablePath |-> m.BQTablePath.v,
      IsDetailedBilling |-> OptionalPtr(m.IsDetailedBilling),
      StartDate |-> OptionalPtr(m.StartDate),
      EndDate |-> OptionalPtr(m.EndDate) ]

awsResourceModel_toRequestModel(m) ==
    [ Name |-> m.Name.v,
      BucketName |-> m.BucketName.v,
      RoleARN |-> m.RoleARN.v,
      Prefix |-> m.Prefix.v,
      EKSSplitDataEnabled |-> OptionalPtr(m.EKSSplitDataEnabled),
      StartDate |-> OptionalPtr(m.StartDate),
      EndDate |-> OptionalPtr(m.EndDate),
      EKSSplit |-> OptionalPtr(m.EKSSplit) ]

\* the API request structs, their fields named by their json tags
GCPBillingDatasourceRequest_toAPIRequestV1(r) ==
    [ type |-> billingDatasourceTypeGCPV1,
      name |-> r.Name,
      bq_table_path |-> r.BQTablePath,
      is_detailed_billing |-> r.IsDetailedBilling,
      start_date |-> r.StartDate,
      end_date |-> r.EndDate ]

GCPBillingDatasourceRequest_toAPIRequest(r) ==
    [ type |-> billingDatasourceTypeGCP,
      name |-> r.Name,
      bqTablePath |-> r.BQURI,
      isDetailedBilling |-> r.IsDetailedBilling,
      startDate |-> r.StartDate,
      endDate |-> r.EndDate ]

AWSBillingDatasourceRequest_toAPIRequest(r) ==
    [ type |-> billingDatasourceTypeAWS,
      name |-> r.Name,
      bucketName |-> r.BucketName,
      roleArn |-> r.RoleARN,
      prefix |-> r.Prefix,
      eksSplitDataEnabled |-> r.EKSSplitDataEnabled,
      startDate |-> r.StartDate,
      endDate |-> r.EndDate,
      eksSplit |-> r.EKSSplit ]

\* the pointer fields of the API request structs; each is tagged omitempty
gcpOmitEmptyV1 == {"is_detailed_billing", "start_date", "end_date"}
gcpOmitEmpty == {"isDetailedBilling", "startDate", "endDate"}
awsOmitEmpty == {"eksSplitDataEnabled", "startDate", "endDate", "eksSplit"}

\* the keys of the *bool fields
BoolKeys == {"is_detailed_billing", "isDetailedBilling", "eksSplitDataEnabled", "eksSplit"}

\* variant: omitempty as it acts on a plain bool field, dropping false
Marshal_DropsFalse(v, omitEmpty) ==
    [ k \in { k \in DOMAIN v :
                ~(k \in omitEmpty /\ (v[k] = Nil \/ (k \in BoolKeys /\ v[k] = Ptr(FALSE)))) } |->
        IF k \in omitEmpty THEN v[k][1] ELSE v[k] ]

\* json.Marshal of an API request struct: the JSON object as a function from
\* its keys; an omitempty pointer field is left out when nil and otherwise
\* written as the value it points to
Marshal(v, omitEmpty) ==
    [ k \in { k \in DOMAIN v : ~(k \in omitEmpty /\ v[k] = Nil) } |->
        IF k \in omitEmpty THEN v[k][1] ELSE v[k] ]

\* the payload doJSON marshals for a validate or a create of request r
gcpPayloadV1(r) == Marshal(GCPBillingDatasourceRequest_toAPIRequestV1(r), gcpOmitEmptyV1)
gcpPayload(r) == Marshal(GCPBillingDatasourceRequest_toAPIRequest(r), gcpOmitEmpty)
awsPayload(r) == Marshal(AWSBillingDatasourceRequest_toAPIRequest(r), awsOmitEmpty)

\* attribute values a plan may hold
Names == {"", "billing"}
Dates == {"", "2024-01-01"}
BoolAttrs == {AttrNull(FALSE), AttrUnknown(FALSE), AttrValue(FALSE), AttrValue(TRUE)}
DateAttrs == {AttrNull(""), AttrUnknown("")} \cup {AttrValue(d) : d \in Dates}
RequiredAttrs == {AttrValue(n) : n \in Names}

gcpResourceModels ==
    [ Name : RequiredAttrs, BQTablePath : {AttrValue("proj.ds.table")},
      IsDetailedBilling : BoolAttrs, StartDate : DateAttrs, EndDate : {AttrNull(""), AttrValue("2024-12-31")} ]

awsResourceModels ==
    [ Name : RequiredAttrs, BucketName : {AttrValue("my-cur-bucket")}, RoleARN : {AttrValue("arn:role")},
      Prefix : {AttrValue(""), AttrValue("cur/")},
      EKSSplitDataEnabled : BoolAttrs, StartDate : {AttrNull(""), AttrValue("2024-01-01")},
      EndDate : {AttrNull(""), AttrValue("")}, EKSSplit : {AttrNull(FALSE), AttrValue(FALSE), AttrValue(TRUE)} ]

\* request structs a caller may hand to the client directly
GCPBillingDatasourceRequests ==
    [ Name : Names, BQURI : {"proj.ds.table"},
      IsDetailedBilling : {Nil, Ptr(FALSE), Ptr(TRUE)},
      StartDate : {Nil} \cup {Ptr(d) : d \in Dates}, EndDate : {Nil, Ptr("2024-12-31")} ]

PayloadInputs ==
    {Calc("gcpPayloadV1", m) : m \in gcpResourceModels}
    \cup {Calc("gcpPayload", r) : r \in GCPBillingDatasourceRequests}
    \cup {Calc("awsPayload", m) : m \in awsResourceModels}

\* a resource Create builds the request struct of its plan (or a caller hands
\* the client a request struct) and doJSON marshals the API request
BuildPayload ==
    /\ calc.fn \in {"gcpPayloadV1", "gcpPayload", "awsPayload"}
    /\ ~calc.done
    /\ calc' = [calc EXCEPT
                  !.done = TRUE,
                  !.out = CASE calc.fn = "gcpPayloadV1" ->
                                 [ req |-> gcpResourceModel_toRequestModel(calc.in),
                                   payload |-> gcpPayloadV1(gcpResourceModel_toRequestModel(calc.in)) ]
                            [] calc.fn = "gcpPayload" ->
                                 [ req |-> calc.in, payload |-> gcpPayload(calc.in) ]
                            [] calc.fn = "awsPayload" ->
                                 [ req |-> awsResourceModel_toRequestModel(calc.in),
                                   payload |-> awsPayload(awsResourceModel_toRequestModel(calc.in)) ]]
    /\ UNCHANGED clientVars

----------------------------------------------------------------------------
(* Datasource responses: JSON -> API response struct -> normalized datasource *)

\* the fields of the API response structs, named by their json tags
gcpResponseStringsV1 == {"id", "name", "bq_table_path", "bqTablePath"}
gcpResponsePointersV1 ==
    {"is_detailed_billing", "isDetailedBilling", "start_date", "startDate", "end_date", "endDate"}
gcpResponseStrings == {"id", "type", "name", "bqUri"}
gcpResponsePointers == {"status", "isDetailedBilling", "startDate", "endDate"}
awsResponseStrings == {"id", "type", "name", "bucketName", "roleArn", "prefix"}
awsResponsePointers == {"status", "eksSplitDataEnabled", "startDate", "endDate", "eksSplit"}

\* variant: a pointer field the object lacks is given its zero value
Unmarshal_DefaultsAbsent(obj, strings, pointers) ==
    [ k \in strings \cup pointers |->
        IF k \in DOMAIN obj THEN (IF k \in pointers THEN Ptr(obj[k]) ELSE obj[k])
        ELSE IF k \in strings THEN ""
        ELSE IF k \in BoolKeys THEN Ptr(FALSE) ELSE Ptr("") ]

\* json.Unmarshal of a JSON object into a response struct: a key the struct
\* declares is stored (a pointer field pointing to it), any other key is
\* ignored, and a field without its key keeps its zero value
Unmarshal(obj, strings, pointers) ==
    [ k \in strings \cup pointers |->
        IF k \in DOMAIN obj THEN (IF k \in pointers THEN Ptr(obj[k]) ELSE obj[k])
        ELSE IF k \in strings THEN "" ELSE Nil ]

\* firstBoolPtr / firstStringPtr: the first pointer that is not nil
firstPtr(values) ==
    IF \E k \in DOMAIN values : values[k] # Nil
    THEN values[CHOOSE k \in DOMAIN values : values[k] # Nil /\ \A j \in 1..(k - 1) : values[j] = Nil]
    ELSE Nil

toGCPBillingDatasourceV1(r) ==
    [ ID |-> r.id, Name |-> r.name,
      BQTablePath |-> IF r.bq_table_path = "" THEN r.bqTablePath ELSE r.bq_table_path,
      IsDetailedBilling |-> firstPtr(<<r.is_detailed_billing, r.isDetailedBilling>>),
      StartDate |-> firstPtr(<<r.start_date, r.startDate>>),
      EndDate |-> firstPtr(<<r.end_date, r.endDate>>) ]

toGCPBillingDatasource(r) ==
    [ ID |-> r.id, Type |-> r.type, Status |-> r.status, Name |-> r.name, BQURI |-> r.bqUri,
      IsDetailedBilling |-> r.isDetailedBilling, StartDate |-> r.startDate, EndDate |-> r.endDate ]

toAWSBillingDatasource(r) ==
    [ ID |-> r.id, Type |-> r.type, Status |-> r.status, Name |-> r.name,
      BucketName |-> r.bucketName, RoleARN |-> r.roleArn, Prefix |-> r.prefix,
      EKSSplitDataEnabled |-> r.eksSplitDataEnabled, StartDate |-> r.startDate, EndDate |-> r.endDate,
      EKSSplit |-> r.eksSplit ]

decodeGCPV1(obj) == toGCPBillingDatasourceV1(Unmarshal(obj, gcpResponseStringsV1, gcpResponsePointersV1))
decodeGCP(obj) == toGCPBillingDatasource(Unmarshal(obj, gcpResponseStrings, gcpResponsePointers))
decodeAWS(obj) == toAWSBillingDatasource(Unmarshal(obj, awsResponseStrings, awsResponsePointers))

\* The backend's answer to a create: the fields of the request echoed under
\* one naming convention, with the id it gave the datasource.  "camelCase"
\* names them as the response structs do, "snake_case" as the normalized
\* fields in snake case, "asSent" as the request payload did.
Conventions == {"camelCase", "snake_case", "asSent"}

gcpEchoKeyV1 ==
    [ camelCase |-> [ Name |-> "name", BQTablePath |-> "bqTablePath", IsDetailedBilling |-> "isDetailedBilling",
                      StartDate |-> "startDate", EndDate |-> "endDate" ],
      snake_case |-> [ Name |-> "name", BQTablePath |-> "bq_table_path",
                       IsDetailedBilling |-> "is_detailed_billing",
                       StartDate |-> "start_date", EndDate |-> "end_date" ],
      asSent |-> [ Name |-> "name", BQTablePath |-> "bq_table_path", IsDetailedBilling |-> "is_detailed_billing",
                   StartDate |-> "start_date", EndDate |-> "end_date" ] ]

gcpEchoKey ==
    [ camelCase |-> [ Name |-> "name", BQURI |-> "bqUri", IsDetailedBilling |-> "isDetailedBilling",
                      StartDate |-> "startDate", EndDate |-> "endDate" ],
      snake_case |-> [ Name |-> "name", BQURI |-> "bq_uri", IsDetailedBilling |-> "is_detailed_billing",
                       StartDate |-> "start_date", EndDate |-> "end_date" ],
      asSent |-> [ Name |-> "name", BQURI |-> "bqTablePath", IsDetailedBilling |-> "isDetailedBilling",
                   StartDate |-> "startDate", EndDate |-> "endDate" ] ]

awsCamelKey ==
    [ Name |-> "name", BucketName |-> "bucketName", RoleARN |-> "roleArn", Prefix |-> "prefix",
      EKSSplitDataEnabled |-> "eksSplitDataEnabled", StartDate |-> "startDate", EndDate |-> "endDate",
      EKSSplit |-> "eksSplit" ]

awsEchoKey ==
    [ camelCase |-> awsCamelKey,
      snake_case |-> [ Name |-> "name", BucketName |-> "bucket_name", RoleARN |-> "role_arn", Prefix |-> "prefix",
                       EKSSplitDataEnabled |-> "eks_split_data_enabled", StartDate |-> "start_date",
                       EndDate |-> "end_date", EKSSplit |-> "eks_split" ],
      asSent |-> awsCamelKey ]

gcpOptional == {"IsDetailedBilling", "StartDate", "EndDate"}
awsOptional == {"EKSSplitDataEnabled", "StartDate", "EndDate", "EKSSplit"}

\* the echo of request req: its required fields, the optional fields it
\* set, and the new id
Echo(req, keyOf, optional, newID) ==
    [ k \in {"id"} \cup { keyOf[f] : f \in { f \in DOMAIN req : ~(f \in optional /\ req[f] = Nil) } } |->
        IF k = "id" THEN newID
        ELSE LET f == CHOOSE f \in DOMAIN req : keyOf[f] = k
             IN  IF f \in optional THEN req[f][1] ELSE req[f] ]

gcpRoundTripV1(req, conv) == decodeGCPV1(Echo(req, gcpEchoKeyV1[conv], gcpOptional, "ds-1"))
gcpRoundTrip(req, conv) == decodeGCP(Echo(req, gcpEchoKey[conv], gcpOptional, "ds-1"))
awsRoundTrip(req, conv) == decodeAWS(Echo(req, awsEchoKey[conv], awsOptional, "ds-1"))

RoundTripInputs ==
    { Calc("gcpRoundTripV1", [req |-> gcpResourceModel_toRequestModel(m), conv |-> c]) :
        m \in gcpResourceModels, c \in Conventions }
    \cup
    { Calc("gcpRoundTrip", [req |-> r, conv |-> c]) : r \in GCPBillingDatasourceRequests, c \in Conventions }
    \cup
    { Calc("awsRoundTrip", [req |-> awsResourceModel_toRequestModel(m), conv |-> c]) :
        m \in awsResourceModels, c \in Conventions }

\* the backend echoes a create request and the client decodes the answer
EchoAndDecode ==
    /\ calc.fn \in {"gcpRoundTripV1", "gcpRoundTrip", "awsRoundTrip"}
    /\ ~calc.done
    /\ calc' = [calc EXCEPT
                  !.done = TRUE,
                  !.out = CASE calc.fn = "gcpRoundTripV1" -> gcpRoundTripV1(calc.in.req, calc.in.conv)
                            [] calc.fn = "gcpRoundTrip" -> gcpRoundTrip(calc.in.req, calc.in.conv)
                            [] calc.fn = "awsRoundTrip" -> awsRoundTrip(calc.in.req, calc.in.conv)]
    /\ UNCHANGED clientVars

----------------------------------------------------------------------------
(* The service-account response and its aliased keys *)

\* a Go []string: nil, or a slice holding elems (possibly none)
NilSlice == [nil |-> TRUE, elems |-> <<>>]
Slice(elems) == [nil |-> FALSE, elems |-> elems]

\* a JSON object with key k when o holds a value, without it when o is Nil
Member(k, o) == IF o = Nil THEN <<>> ELSE k :> o[1]

\* json.Unmarshal into serviceAccountAPIResponse: a missing key leaves "" or
\* a nil slice; the JSON value null (held as NilSlice) leaves a nil slice too
serviceAccountAPIResponse(obj) ==
    [ ServiceAccount |-> IF "service_account" \in DOMAIN obj THEN obj["service_account"] ELSE "",
      ServiceAccountCamel |-> IF "serviceAccount" \in DOMAIN obj THEN obj["serviceAccount"] ELSE "",
      ServiceAccountEmail |-> IF "serviceAccountEmail" \in DOMAIN obj THEN obj["serviceAccountEmail"] ELSE "",
      SubIDs |-> IF "sub_ids" \in DOMAIN obj THEN obj["sub_ids"] ELSE NilSlice,
      SubIDsCamel |-> IF "subIds" \in DOMAIN obj THEN obj["subIds"] ELSE NilSlice ]

\* variant: the last non-empty value wins
firstNonEmptyString_Last(values) ==
    IF \E k \in DOMAIN values : values[k] # ""
    THEN values[CHOOSE k \in DOMAIN values :
                    values[k] # "" /\ \A j \in (k + 1)..Len(values) : values[j] = ""]
    ELSE ""

firstNonEmptyString(values) ==
    IF \E k \in DOMAIN values : values[k] # ""
    THEN values[CHOOSE k \in DOMAIN values : values[k] # "" /\ \A j \in 1..(k - 1) : values[j] = ""]
    ELSE ""

\* append([]string(nil), value...): a copy, which is nil when value is empty
appendToNil(value) == IF value.elems = <<>> THEN NilSlice ELSE Slice(value.elems)

firstStringSlice(values) ==
    IF \E k \in DOMAIN values : ~values[k].nil
    THEN appendToNil(values[CHOOSE k \in DOMAIN values : ~values[k].nil /\ \A j \in 1..(k - 1) : values[j].nil])
    ELSE NilSlice

\* the tail of GetServiceAccount: the normalized ServiceAccountResponse
ServiceAccountResponse(o) ==
    [ ServiceAccount |-> firstNonEmptyString(<<o.ServiceAccount, o.ServiceAccountCamel, o.ServiceAccountEmail>>),
      SubIDs |-> IF firstStringSlice(<<o.SubIDs, o.SubIDsCamel>>).nil
                 THEN Slice(<<>>)
                 ELSE firstStringSlice(<<o.SubIDs, o.SubIDsCamel>>) ]

\* bodies a 200 answer to GetServiceAccount may carry
ServiceAccountObjects ==
    { Member("service_account", a) @@ Member("serviceAccount", b) @@ Member("serviceAccountEmail", c)
      @@ Member("sub_ids", d) @@ Member("subIds", e) :
        a \in {Nil, Ptr(""), Ptr("sa-snake")},
        b \in {Nil, Ptr(""), Ptr("sa-camel")},
        c \in {Nil, Ptr("sa-email")},
        d \in {Nil, Ptr(NilSlice), Ptr(Slice(<<>>)), Ptr(Slice(<<"sub-1">>))},
        e \in {Nil, Ptr(Slice(<<>>)), Ptr(Slice(<<"sub-2", "sub-3">>))} }

\* bodies of the earlier GCP response shape that carry both spellings of a key
AliasedGCPObjects ==
    { ("id" :> "ds-1") @@ Member("bq_table_path", a) @@ Member("bqTablePath", b)
      @@ Member("is_detailed_billing", c) @@ Member("isDetailedBilling", d) :
        a \in {Nil, Ptr(""), Ptr("snake.table")},
        b \in {Nil, Ptr("camel.table")},
        c \in {Nil, Ptr(FALSE), Ptr(TRUE)},
        d \in {Nil, Ptr(FALSE), Ptr(TRUE)} }

NormalizeInputs ==
    {Calc("ServiceAccountResponse", obj) : obj \in ServiceAccountObjects}
    \cup {Calc("toGCPBillingDatasourceV1", obj) : obj \in AliasedGCPObjects}

\* the client decodes a 200 response body and normalizes its aliased fields
Normalize ==
    /\ calc.fn \in {"ServiceAccountResponse", "toGCPBillingDatasourceV1"}
    /\ ~calc.done
    /\ calc' = [calc EXCEPT
                  !.done = TRUE,
                  !.out = IF calc.fn = "ServiceAccountResponse"
                          THEN ServiceAccountResponse(serviceAccountAPIResponse(calc.in))
                          ELSE decodeGCPV1(calc.in)]
    /\ UNCHANGED clientVars

----------------------------------------------------------------------------
(* The message of the unexpected-status error.  Texts are sequences of     *)
(* characters, so that trimming and concatenation act as they do on Go     *)
(* strings.                                                                *)

MaxLen == 3

Chars == {" ", "x"}

\* every text of at most MaxLen characters
Texts == UNION { [1..n -> Chars] : n \in 0..MaxLen }

RECURSIVE TrimLeft(_)
TrimLeft(t) == IF t # <<>> /\ Head(t) = " " THEN TrimLeft(Tail(t)) ELSE t

RECURSIVE TrimRight(_)
TrimRight(t) == IF t # <<>> /\ t[Len(t)] = " " THEN TrimRight(SubSeq(t, 1, Len(t) - 1)) ELSE t

\* strings.TrimSpace
TrimSpace(t) == TrimRight(TrimLeft(t))

\* http.StatusText: the reason phrase, empty for a code net/http does not know
StatusText(code) ==
    CASE code = 202 -> <<"Accepted">>
      [] code = 403 -> <<"Forbidden">>
      [] code = 404 -> <<"Not Found">>
      [] code = 503 -> <<"Service Unavailable">>
      [] OTHER -> <<>>

\* A response body for the error decoder: raw is its text; json tells
\* whether json.Unmarshal into apiErrorResponse accepts it ("object": an
\* object whose error and reason, when present, are strings; "null": the
\* literal null) or rejects it ("mistyped": an object whose error or reason
\* is not a string; "invalid": anything else, the empty body included).
ErrorBody(json, raw, error, reason) == [json |-> json, raw |-> raw, error |-> error, reason |-> reason]

ObjectText == <<"{", "}">>

ErrorBodies ==
    { ErrorBody("invalid", t, Nil, Nil) : t \in Texts }
    \cup { ErrorBody("null", <<"null">>, Nil, Nil), ErrorBody("null", <<" ", "null">>, Nil, Nil) }
    \cup { ErrorBody("object", ObjectText, e, r) :
              e \in {Nil} \cup {Ptr(t) : t \in Texts}, r \in {Nil} \cup {Ptr(t) : t \in Texts} }
    \cup { ErrorBody("mistyped", ObjectText, Ptr(<<"x">>), Nil), ErrorBody("mistyped", ObjectText, Nil, Nil) }

\* json.Unmarshal(body, &apiErr): whether it succeeds, and apiErr after it
apiErrorResponse(body) ==
    [ ok |-> body.json \in {"object", "null"},
      Error |-> IF body.json = "object" /\ body.error # Nil THEN body.error[1] ELSE <<>>,
      Reason |-> IF body.json = "object" /\ body.reason # Nil THEN body.reason[1] ELSE <<>> ]

\* variant: the raw body is preferred to the structured fields
unexpectedStatusMessage_RawFirst(statusCode, body) ==
    [ code |-> statusCode,
      text |-> IF TrimSpace(body.raw) # <<>> THEN TrimSpace(body.raw) ELSE StatusText(statusCode) ]

\* the text unexpectedStatusError formats after "unexpected status code <code>: "
unexpectedStatusMessage(statusCode, body) ==
    [ code |-> statusCode,
      text |-> IF /\ apiErrorResponse(body).ok
                  /\ (TrimSpace(apiErrorResponse(body).Error) # <<>>
                        \/ TrimSpace(apiErrorResponse(body).Reason) # <<>>)
               THEN <<"error=">> \o TrimSpace(apiErrorResponse(body).Error)
                    \o <<" reason=">> \o TrimSpace(apiErrorResponse(body).Reason)
               ELSE IF TrimSpace(body.raw) # <<>> THEN TrimSpace(body.raw)
               ELSE StatusText(statusCode) ]

ErrorStatuses == {202, 403, 499, 503}

MessageInputs ==
    { Calc("unexpectedStatusError", [statusCode |-> c, body |-> b]) : c \in ErrorStatuses, b \in ErrorBodies }

\* a client operation formats the error for a status it does not accept
FormatError ==
    /\ calc.fn = "unexpectedStatusError"
    /\ ~calc.done
    /\ calc' = [calc EXCEPT !.done = TRUE,
                            !.out = unexpectedStatusMessage(calc.in.statusCode, calc.in.body)]
    /\ UNCHANGED clientVars

----------------------------------------------------------------------------
(* Merging a datasource the client returned into a resource model *)

\* an ID attribute a model may hold: known, or not yet set
IDAttrs == {AttrValue("ds-1"), AttrNull(""), AttrUnknown("")}

\* models of the GCP resource, and datasources the earlier client returns
gcpStoredModels ==
    [ ID : IDAttrs, Name : {AttrValue("billing")}, BQTablePath : {AttrValue("proj.ds.table")},
      IsDetailedBilling : {AttrNull(FALSE), AttrValue(TRUE)},
      StartDate : {AttrNull(""), AttrValue("2024-01-01")}, EndDate : {AttrValue("2024-12-31")} ]

GCPBillingDatasourcesV1 ==
    [ ID : {""} \cup IDs, Name : {"", "renamed"}, BQTablePath : {"", "proj.ds.other"},
      IsDetailedBilling : {Nil, Ptr(FALSE)}, StartDate : {Nil, Ptr("")},
      EndDate : {Nil, Ptr(""), Ptr("2025-06-30")} ]

\* models of the AWS resource, and datasources the client returns
awsStoredModels ==
    [ ID : IDAttrs, Status : {AttrNull(""), AttrValue("PENDING")},
      Name : {AttrValue("billing")}, BucketName : {AttrValue("my-cur-bucket")}, RoleARN : {AttrValue("arn:role")},
      Prefix : {AttrValue("cur/")}, EKSSplitDataEnabled : {AttrNull(FALSE), AttrValue(TRUE)},
      StartDate : {AttrValue("2024-01-01")}, EndDate : {AttrValue("2024-12-31")}, EKSSplit : {AttrValue(FALSE)} ]

AWSBillingDatasources ==
    [ ID : {""} \cup IDs, Type : {billingDatasourceTypeAWS}, Status : {Nil, Ptr("ACTIVE")},
      Name : {"", "renamed"}, BucketName : {"", "other-bucket"}, RoleARN : {"", "arn:other"},
      Prefix : {"", "new/"}, EKSSplitDataEnabled : {Nil, Ptr(FALSE)},
      StartDate : {Nil, Ptr("2025-01-01")}, EndDate : {Nil, Ptr("")}, EKSSplit : {Nil, Ptr(TRUE)} ]

MergeInputs ==
    { Calc("gcpResource.Read", [m |-> m, api |-> a]) : m \in gcpStoredModels, a \in GCPBillingDatasourcesV1 }
    \cup
    { Calc("awsResource.Read", [m |-> m, api |-> a]) : m \in awsStoredModels, a \in AWSBillingDatasources }

\* the tail of gcpResource.Read / awsResource.Read for the stored model m
\* and the datasource api the client returned: the model it sets as state
ReadModel(h, m, api) == fillID(mergeAPIResponse(h, m, api), api)

\* a resource Read merges the datasource it read into the stored model, and
\* the next Read, given the same datasource, merges it into the result
MergeResponse ==
    /\ calc.fn \in ReadHandlers
    /\ ~calc.done
    /\ calc' = [calc EXCEPT
                  !.done = TRUE,
                  !.out = [ merged |-> mergeAPIResponse(calc.fn, calc.in.m, calc.in.api),
                            read |-> ReadModel(calc.fn, calc.in.m, calc.in.api),
                            reread |-> ReadModel(calc.fn, ReadModel(calc.fn, calc.in.m, calc.in.api),
                                                 calc.in.api) ]]
    /\ UNCHANGED clientVars

----------------------------------------------------------------------------
(* Reading a response body.  A byte stream is held as its runs: a sequence *)
(* of [byte, n], n >= 1 copies of one byte, neighbouring runs differing in *)
(* their byte, so that streams of a megabyte can be told apart exactly.    *)

maxResponseBodyBytes == 1024 * 1024

Run(byte, n) == [byte |-> byte, n |-> n]

\* io.ReadAll(io.LimitReader(stream, limit)): the bytes of the stream up to
\* its end or to the limit, whichever comes first
RECURSIVE LimitRead(_, _)
LimitRead(stream, limit) ==
    IF stream = <<>> \/ limit <= 0 THEN <<>>
    ELSE IF Head(stream).n <= limit
    THEN <<Head(stream)>> \o LimitRead(Tail(stream), limit - Head(stream).n)
    ELSE <<Run(Head(stream).byte, limit)>>

\* variant: the body is read to its end
readResponseBody_Unlimited(stream) == stream

\* body, readErr := io.ReadAll(io.LimitReader(resp.Body, maxResponseBodyBytes))
readResponseBody(stream) == LimitRead(stream, maxResponseBodyBytes)

\* lengths of runs around the ceiling
RunLengths == {1, maxResponseBodyBytes - 1, maxResponseBodyBytes, maxResponseBodyBytes + 1}

\* response bodies of up to three runs
Streams ==
    {<<>>}
    \cup { <<Run("a", n)>> : n \in RunLengths }
    \cup { <<Run("a", n), Run("b", m)>> : n \in RunLengths, m \in RunLengths }
    \cup { <<Run("a", n), Run("b", m), Run("a", k)>> : n \in RunLengths, m \in RunLengths, k \in RunLengths }

ReadInputs == { Calc("io.ReadAll", stream) : stream \in Streams }

\* doJSON reads the body of a response
ReadBody ==
    /\ calc.fn = "io.ReadAll"
    /\ ~calc.done
    /\ calc' = [calc EXCEPT !.done = TRUE, !.out = readResponseBody(calc.in)]
    /\ UNCHANGED clientVars

----------------------------------------------------------------------------
(* The pure functions, each applied to one input *)

PureInit ==
    /\ urlOK = TRUE
    /\ ClientIdle
    /\ calc \in PayloadInputs \cup RoundTripInputs \cup NormalizeInputs \cup MessageInputs \cup MergeInputs
                \cup ReadInputs

PureNext ==
    \/ BuildPayload
    \/ EchoAndDecode
    \/ Normalize
    \/ FormatError
    \/ MergeResponse
    \/ ReadBody

PureSpec == PureInit /\ [][PureNext]_vars

----------------------------------------------------------------------------
(* Reading twice.  The backend is unchanged between two reads: it answers  *)
(* every GET with the same response, held in calc.in.  A caller reads a    *)
(* datasource, by the client or by a resource Read, and then reads it      *)
(* again the same way; calc.out keeps what the first read came to.  The    *)
(* tail of a resource Read is also applied twice to one datasource         *)
(* (MergeResponse).                                                        *)

BackendInputs == { Calc("backend", resp) : resp \in Responses }

\* what the caller keeps of the read that ended
ReadOutcome == [handler |-> handler, op |-> op, id |-> id, wire |-> wire, out |-> out,
                tfstate |-> tfstate, diags |-> diags]

\* the caller reads datasource i, by the client (h = "none") or by resource
\* handler h; its second read is the first one again
Reread(h, o, i) ==
    /\ calc.fn = "backend"
    /\ calc.done => (h = calc.out.handler /\ o = calc.out.op /\ i = calc.out.id)
    /\ IF h = "none" THEN o \in GetOps /\ Call(o, i, FALSE)
       ELSE o = handlerOp(h) /\ Read(h, i, TRUE, TRUE, FALSE)

\* the unchanged backend answers the request in flight
Answer ==
    /\ calc.fn = "backend"
    /\ RoundTrip(FALSE, calc.in, FALSE, FALSE)

\* the first read is over and the caller keeps its outcome
Remember ==
    /\ calc.fn = "backend"
    /\ ~calc.done
    /\ FinishCall
    /\ calc' = [calc EXCEPT !.done = TRUE, !.out = ReadOutcome]
    /\ UNCHANGED parked

RereadInit ==
    /\ urlOK = TRUE
    /\ ClientIdle
    /\ calc \in BackendInputs \cup MergeInputs

RereadNext ==
    \/ \E h \in ReadHandlers \cup {"none"}, o \in GetOps, i \in IDs : Reread(h, o, i)
    \/ Answer
    \/ TimerFires
    \/ Remember
    \/ MergeResponse

RereadSpec == RereadInit /\ [][RereadNext]_vars

----------------------------------------------------------------------------
(* Two operations at once on one Client.  The Client has three fields,     *)
(* baseURL, token and httpClient, and no method assigns to them; payload,  *)
(* attempt, req, resp and body are locals of doJSON.  Each of the two      *)
(* goroutines therefore owns a set of Locals and shares urlOK.  One of     *)
(* them takes a step at a time (it sends a request, receives a response    *)
(* or has its timer fire) and the scheduler may switch to the other one    *)
(* between any two steps.                                                  *)

\* the calls the two goroutines make
ConcCalls ==
    { <<"GetAWSBillingDatasource", "ds-1">>,
      <<"DeleteBillingDatasource", "ds/2">>,
      <<"CreateAWSBillingDatasource", "">> }

\* the responses the backend gives them
ConcResponses ==
    { [status |-> 200, body |-> ObjBody([NoFields EXCEPT !.id = "ds-1"])],
      [status |-> 404, body |-> EmptyBody],
      [status |-> 500, body |-> TextBody],
      [status |-> 503, body |-> EmptyBody] }

\* variant: doJSON's loop variable is a field of the Client
Resume_SharedAttempt(f) ==
    /\ handler' = f.handler
    /\ op' = f.op
    /\ id' = f.id
    /\ ctxDone' = f.ctxDone
    /\ doneAt' = f.doneAt
    /\ pc' = f.pc
    /\ attempt' = attempt
    /\ wire' = f.wire
    /\ resps' = f.resps
    /\ waits' = f.waits
    /\ fault' = f.fault
    /\ ret' = f.ret
    /\ out' = f.out
    /\ diags' = f.diags
    /\ tfstate' = f.tfstate
    /\ trail' = f.trail

\* the goroutine that owns f goes on: its arguments and locals are its own
Resume(f) ==
    /\ handler' = f.handler
    /\ op' = f.op
    /\ id' = f.id
    /\ ctxDone' = f.ctxDone
    /\ doneAt' = f.doneAt
    /\ pc' = f.pc
    /\ attempt' = f.attempt
    /\ wire' = f.wire
    /\ resps' = f.resps
    /\ waits' = f.waits
    /\ fault' = f.fault
    /\ ret' = f.ret
    /\ out' = f.out
    /\ diags' = f.diags
    /\ tfstate' = f.tfstate
    /\ trail' = f.trail

\* the scheduler takes the running goroutine off and puts the other one on
Switch ==
    /\ Resume(parked)
    /\ parked' = Locals
    /\ UNCHANGED <<urlOK, prevDelete, calc>>

\* the running goroutine calls a client operation
Go(o, i) ==
    /\ <<o, i>> \in ConcCalls
    /\ Call(o, i, FALSE)

\* the backend answers the request of the running goroutine
Respond(resp) ==
    /\ resp \in ConcResponses
    /\ RoundTrip(FALSE, resp, FALSE, FALSE)

ConcInit ==
    /\ urlOK = TRUE
    /\ ClientIdle
    /\ calc = NoCalc

ConcNext ==
    \/ \E c \in ConcCalls : Go(c[1], c[2])
    \/ \E resp \in ConcResponses : Respond(resp)
    \/ TimerFires
    \/ Switch

ConcSpec == ConcInit /\ [][ConcNext]_vars

----------------------------------------------------------------------------
(* Properties *)

Last(q) == q[Len(q)]

\* every request of the current call was answered, and with a 5xx status
AllAnswered5xx ==
    /\ wire # <<>>
    /\ Len(resps) = Len(wire)
    /\ \A k \in DOMAIN resps : IsServerError(resps[k].status)

\* C1: when every attempt of a call is answered with 5xx and the context is
\* never cancelled, the call gives up after exactly 4 requests: with fewer
\* than 4 sent it is still waiting to retry, and it never sends a fifth.
C1_ExactlyFourAttempts ==
    (AllAnswered5xx /\ ~ctxDone) =>
        \/ Len(wire) = 4 /\ pc = "returned"
        \/ Len(wire) < 4 /\ pc = "backoff"

C1_Witness ==
    AllAnswered5xx /\ ~ctxDone /\ pc = "returned" /\ Len(wire) = 4

\* C2: with no cancellation and no transport failure, a response sequence of
\* k 5xx responses (0 <= k <= 3) and then one non-5xx response ends the call
\* after exactly k+1 requests, and doJSON returns that last response's status
\* and body with a nil error; the call does not end before the non-5xx
\* response while fewer than 4 responses have arrived.
C2_FinalNon5xxReturned ==
    (~ctxDone /\ fault = "none" /\ resps # <<>>) =>
        /\ \A k \in DOMAIN resps :
              ~IsServerError(resps[k].status) =>
                  /\ k = Len(resps)
                  /\ k <= 4
                  /\ pc = "returned"
                  /\ Len(wire) = k
                  /\ ret = DoJSONReturn(resps[k].body, resps[k].status, NilErr)
        /\ (pc = "returned" /\ Len(resps) < 4) => ~IsServerError(Last(resps).status)

C2_Witness ==
    /\ pc = "returned" /\ ~ctxDone /\ fault = "none"
    /\ Len(resps) = 4 /\ Len(wire) = 4
    /\ \A k \in 1..3 : IsServerError(resps[k].status)
    /\ resps[4].status = 200
    /\ ret = DoJSONReturn(resps[4].body, 200, NilErr)

\* C3: a non-5xx response is never retried: the step that receives it ends
\* the call with that status and body and sends nothing more, and a call
\* answered only with non-5xx statuses has made exactly one request.
C3_Non5xxNeverRetried ==
    /\ [][ (pc = "inflight" /\ Len(resps') = Len(resps) + 1
                /\ ~IsServerError(Last(resps').status))
           => /\ pc' = "returned"
              /\ wire' = wire
              /\ waits' = waits
              /\ ret' = DoJSONReturn(Last(resps').body, Last(resps').status, NilErr) ]_vars
    /\ [] ( (pc = "returned" /\ resps # <<>>
                /\ \A k \in DOMAIN resps : ~IsServerError(resps[k].status))
            => (Len(resps) = 1 /\ Len(wire) = 1) )

C3_Witness ==
    /\ pc = "returned" /\ op = "CreateAWSBillingDatasource"
    /\ Len(wire) = 1 /\ Len(resps) = 1
    /\ resps[1].status = 403
    /\ ret = DoJSONReturn(resps[1].body, 403, NilErr)

\* all 4 attempts of the current call ended in a 5xx response
FourAttempts5xx ==
    Len(resps) = 4 /\ \A k \in 1..4 : IsServerError(resps[k].status)

C5_CancelDuringBackoff ==
    doneAt = "backoff" =>
        /\ pc \in {"backoff", "returned"}
        /\ Len(wire) = Len(waits)
        /\ Len(wire) = Len(resps)
        /\ pc = "returned" =>
              /\ ret = DoJSONReturn(NilBody, 0, ErrRetryCanceled)
              /\ out = Result(NoVal, ErrRetryCanceled)

C5_Witness ==
    /\ doneAt = "backoff" /\ pc = "returned"
    /\ Len(wire) = 2 /\ Len(waits) = 2
    /\ ret.err = ErrRetryCanceled

\* C6: a failure of httpClient.Do, of reading the body or of closing it, on
\* any attempt, ends the call at once with that error: the failed attempt is
\* the last request and no backoff wait follows it.
C6_TransportFailureNotRetried ==
    fault # "none" =>
        /\ pc = "returned"
        /\ ret.err = (CASE fault = "do" -> ErrExecuteRequest
                        [] fault = "read" -> ErrReadBody
                        [] fault = "close" -> ErrCloseBody)
        /\ ret.body = NilBody /\ ret.status = 0
        /\ out = Result(NoVal, ret.err)
        /\ Len(wire) = Len(resps) + 1
        /\ Len(waits) = Len(resps)

C6_Witness ==
    /\ fault = "close" /\ pc = "returned"
    /\ Len(wire) = 3 /\ Len(resps) = 2
    /\ ret.err = ErrCloseBody

\* C7: a 404 answer to GetGCPBillingDatasource or GetAWSBillingDatasource
\* yields exactly ErrNotFound and no value, whatever the body.
C7_ReadNotFoundSentinel ==
    (pc = "returned" /\ op \in GetOps /\ ret.err = NilErr /\ ret.status = 404) =>
        out = Result(NoVal, ErrNotFound)

C7_Witness ==
    /\ pc = "returned" /\ op = "GetAWSBillingDatasource"
    /\ ret.err = NilErr /\ ret.status = 404
    /\ ret.body.f.error = "aws_access_denied"
    /\ out.err = ErrNotFound

Is2xx(status) == status >= 200 /\ status < 300

\* the body decodes but names no datasource id
LacksID(body) == body.json # "invalid" /\ body.f.id \in {Absent, ""}

CreatePosts ==
    { k \in DOMAIN wire :
        wire[k].method = "POST" /\ wire[k].path = <<routeBillingDatasourceBase>> }

ServerErrorsSeen == { k \in DOMAIN resps : IsServerError(resps[k].status) }

\* C10 as stated: one invocation of a create operation sends the create POST
\* at most once, whatever the backend answers.
C10_CreatePostAtMostOnce ==
    op \in CreateOps => Cardinality(CreatePosts) <= 1

\* C10 amended: one invocation of a create operation sends the create POST
\* once, and once more after each 5xx response it retries, so at most 4
\* times; it sends it exactly once when the first response is not a 5xx.
C10_CreatePostOncePerAttempt ==
    op \in CreateOps =>
        /\ CreatePosts = DOMAIN wire
        /\ Cardinality(CreatePosts) <= 4
        /\ Cardinality(CreatePosts) <= Cardinality(ServerErrorsSeen) + 1
        /\ (resps # <<>> /\ ~IsServerError(resps[1].status)) => Cardinality(CreatePosts) = 1

C10_Witness ==
    /\ pc = "returned" /\ op = "CreateAWSBillingDatasource"
    /\ Cardinality(CreatePosts) = 4
    /\ out.err = NilErr /\ out.val.ID = "ds-1"

\* the current call ended with doJSON handing its operation a final response
FinalResponse ==
    pc = "returned" /\ ret.err = NilErr /\ resps # <<>> /\ ret.status = Last(resps).status

\* C11: a validate call succeeds on every final status in 200..299 whatever
\* the body, and fails with the unexpected-status error for that status and
\* body on every other final status.
C11_ValidateAccepts2xx ==
    (pc = "returned" /\ op \in ValidateOps /\ ret.err = NilErr) =>
        /\ FinalResponse
        /\ IF Is2xx(ret.status)
           THEN out = Result(NoVal, NilErr)
           ELSE out = Result(NoVal, unexpectedStatusError(ret.status, ret.body))

C11_Witness ==
    /\ FinalResponse /\ op = "ValidateAWSBillingDatasource"
    /\ ret.status = 204 /\ ret.body = EmptyBody
    /\ out.err = NilErr

ReadOps == GetOps \cup {"GetServiceAccount"}

\* C12: a read (GetServiceAccount, GetGCPBillingDatasource,
\* GetAWSBillingDatasource) succeeds only on status 200; every other final
\* status, 201, 202 and 204 included, that is not a 404 answering a read by
\* id yields the unexpected-status error and no decoded value.
C12_ReadSucceedsOnlyOn200 ==
    (pc = "returned" /\ op \in ReadOps /\ ret.err = NilErr) =>
        /\ FinalResponse
        /\ out.err = NilErr => ret.status = 200
        /\ (ret.status # 200 /\ ~(ret.status = 404 /\ op \in GetOps)) =>
              out = Result(NoVal, unexpectedStatusError(ret.status, ret.body))

C12_Witness ==
    /\ FinalResponse /\ op = "GetGCPBillingDatasource"
    /\ ret.status = 201 /\ ret.body.f.id = "ds-1"
    /\ out = Result(NoVal, unexpectedStatusError(201, ret.body))

\* C13: DeleteBillingDatasource succeeds exactly when the final status is
\* 204 or 200; every other final status except 404, 202 and the other 2xx
\* included, yields the unexpected-status error.
C13_DeleteSucceedsOn204Or200 ==
    (pc = "returned" /\ op = "DeleteBillingDatasource" /\ ret.err = NilErr) =>
        /\ FinalResponse
        /\ out.err = NilErr <=> ret.status \in {204, 200}
        /\ ret.status \notin {204, 200, 404} =>
              out = Result(NoVal, unexpectedStatusError(ret.status, ret.body))

C13_Witness ==
    /\ FinalResponse /\ op = "DeleteBillingDatasource" /\ handler = "none"
    /\ ret.status = 202
    /\ out = Result(NoVal, unexpectedStatusError(202, ret.body))

\* C19: a resource Read (GCP or AWS) whose client call reports not-found
\* removes the resource from the state and raises no error diagnostic; a
\* Read whose client call fails in any other way raises an error diagnostic
\* and hands back the stored state as it was.
C19_ReadNotFoundRemovesResource ==
    (pc = "returned" /\ handler \in ReadHandlers /\ op \in GetOps) =>
        /\ out.err = ErrNotFound => (tfstate = Removed /\ ~HasError(diags))
        /\ (out.err # NilErr /\ out.err # ErrNotFound) =>
              /\ HasError(diags)
              /\ tfstate = Tracked(id)
        /\ ~tfstate.tracked => out.err = ErrNotFound

C19_Witness ==
    /\ pc = "returned" /\ handler = "awsResource.Read" /\ id = "ds/2"
    /\ ret.err = NilErr /\ ret.status = 404
    /\ tfstate = Removed /\ diags = {}

\* C20: a resource Update (GCP or AWS) always ends with the error
\* diagnostic "Update not supported", sends no HTTP request and hands back
\* the stored state as it was.
C20_UpdateNotSupported ==
    handler \in UpdateHandlers =>
        /\ pc = "returned"
        /\ diags = { [severity |-> "error", summary |-> "Update not supported"] }
        /\ HasError(diags)
        /\ wire = <<>> /\ op = "none"
        /\ tfstate = Tracked(id)

C20_Witness ==
    /\ handler = "gcpResource.Update" /\ pc = "returned" /\ id = "ds-1"
    /\ HasError(diags) /\ wire = <<>>

HasHeader(req, name, value) == name \in DOMAIN req.header /\ req.header[name] = value

\* Authorization and Accept on the request, Content-Type exactly when it has a body
CarriesTokenHeaders(req) ==
    /\ HasHeader(req, "Authorization", <<"Bearer ", token>>)
    /\ HasHeader(req, "Accept", "application/json")
    /\ IF req.hasBody
       THEN HasHeader(req, "Content-Type", "application/json")
       ELSE "Content-Type" \notin DOMAIN req.header

IsBlank(t) == \A k \in DOMAIN t : t[k] = " "

\* u is t without the blanks at its two ends
TrimOf(u, t) ==
    /\ u # <<>> => (u[1] # " " /\ u[Len(u)] # " ")
    /\ \E i, j \in 0..Len(t) :
          /\ i + Len(u) + j = Len(t)
          /\ IsBlank(SubSeq(t, 1, i))
          /\ SubSeq(t, i + 1, i + Len(u)) = u
          /\ IsBlank(SubSeq(t, Len(t) - j + 1, Len(t)))

\* the value of a string field of an error body, empty when the key is missing
FieldText(o) == IF o = Nil THEN <<>> ELSE o[1]

\* the body is a JSON object with a non-blank error or reason string
Structured(body) ==
    body.json = "object" /\ (~IsBlank(FieldText(body.error)) \/ ~IsBlank(FieldText(body.reason)))

\* C14: the message of an unexpected-status error is, in this order: for a
\* JSON body with a non-blank error or reason, "error=<error> reason=<reason>"
\* with both values (trimmed of surrounding blanks) embedded; otherwise the
\* raw body text trimmed; otherwise, the body being blank, the HTTP status
\* phrase of the code.
C14_MessageOrder ==
    (calc.fn = "unexpectedStatusError" /\ calc.done) =>
        /\ calc.out.code = calc.in.statusCode
        /\ Structured(calc.in.body) =>
              \E e, r \in Texts :
                  /\ TrimOf(e, FieldText(calc.in.body.error))
                  /\ TrimOf(r, FieldText(calc.in.body.reason))
                  /\ calc.out.text = <<"error=">> \o e \o <<" reason=">> \o r
        /\ (~Structured(calc.in.body) /\ ~IsBlank(calc.in.body.raw)) =>
              TrimOf(calc.out.text, calc.in.body.raw)
        /\ (~Structured(calc.in.body) /\ IsBlank(calc.in.body.raw)) =>
              calc.out.text = StatusText(calc.in.statusCode)

C14_Witness ==
    /\ calc.fn = "unexpectedStatusError" /\ calc.done
    /\ calc.in.statusCode = 403
    /\ calc.in.body = ErrorBody("object", ObjectText, Ptr(<<" ", "x">>), Nil)
    /\ calc.out.text = <<"error=", "x", " reason=">>

PayloadFns == {"gcpPayloadV1", "gcpPayload", "awsPayload"}

\* the payload keys of the required and of the optional request fields
RequiredKey(fn) ==
    CASE fn = "gcpPayloadV1" -> [Name |-> "name", BQTablePath |-> "bq_table_path"]
      [] fn = "gcpPayload" -> [Name |-> "name", BQURI |-> "bqTablePath"]
      [] fn = "awsPayload" ->
             [Name |-> "name", BucketName |-> "bucketName", RoleARN |-> "roleArn", Prefix |-> "prefix"]

OptionalKey(fn) ==
    CASE fn = "gcpPayloadV1" ->
             [IsDetailedBilling |-> "is_detailed_billing", StartDate |-> "start_date", EndDate |-> "end_date"]
      [] fn = "gcpPayload" ->
             [IsDetailedBilling |-> "isDetailedBilling", StartDate |-> "startDate", EndDate |-> "endDate"]
      [] fn = "awsPayload" ->
             [EKSSplitDataEnabled |-> "eksSplitDataEnabled", StartDate |-> "startDate", EndDate |-> "endDate",
              EKSSplit |-> "eksSplit"]

KeysOf(keyOf) == { keyOf[f] : f \in DOMAIN keyOf }

\* C16: a validate/create payload always holds type, name and the kind's
\* identifiers with the caller's values; it holds an optional field exactly
\* when the caller set it (a known plan value, a non-nil request field), with
\* that value, false included; it holds nothing else, so an unset optional
\* field is sent neither as null nor as a default.
C16_OptionalFieldsSentIffSet ==
    (calc.fn \in PayloadFns /\ calc.done) =>
        /\ "type" \in DOMAIN calc.out.payload
        /\ calc.out.payload["type"] \in {"gcp", "GCP", "AWS"}
        /\ \A f \in DOMAIN RequiredKey(calc.fn) :
              /\ RequiredKey(calc.fn)[f] \in DOMAIN calc.out.payload
              /\ calc.out.payload[RequiredKey(calc.fn)[f]] = calc.out.req[f]
        /\ \A f \in DOMAIN OptionalKey(calc.fn) :
              /\ OptionalKey(calc.fn)[f] \in DOMAIN calc.out.payload <=> calc.out.req[f] # Nil
              /\ calc.out.req[f] # Nil =>
                    calc.out.payload[OptionalKey(calc.fn)[f]] = calc.out.req[f][1]
              /\ calc.fn # "gcpPayload" =>
                    /\ calc.out.req[f] # Nil <=> calc.in[f].is = "value"
                    /\ calc.in[f].is = "value" => calc.out.req[f] = Ptr(calc.in[f].v)
        /\ DOMAIN calc.out.payload \subseteq
              {"type"} \cup KeysOf(RequiredKey(calc.fn)) \cup KeysOf(OptionalKey(calc.fn))

C16_Witness ==
    /\ calc.fn = "awsPayload" /\ calc.done
    /\ calc.in.EKSSplit = AttrValue(FALSE) /\ calc.in.EKSSplitDataEnabled = AttrUnknown(FALSE)
    /\ calc.in.StartDate = AttrNull("") /\ calc.in.EndDate = AttrValue("")
    /\ DOMAIN calc.out.payload = {"type", "name", "bucketName", "roleArn", "prefix", "eksSplit", "endDate"}
    /\ calc.out.payload["eksSplit"] = FALSE

RoundTripFns == {"gcpRoundTripV1", "gcpRoundTrip", "awsRoundTrip"}

\* the decoded datasource equals the request in every field of the request
EqualFieldForField(req, ds) == \A f \in DOMAIN req : ds[f] = req[f]

\* every optional field the request left unset is nil in the datasource
UnsetStaysNil(req, ds) ==
    \A f \in DOMAIN req \cap (gcpOptional \cup awsOptional) : req[f] = Nil => ds[f] = Nil

\* field f of the datasource holds nothing
IsZero(ds, f) == IF f \in gcpOptional \cup awsOptional THEN ds[f] = Nil ELSE ds[f] = ""

\* the request fields spelled differently in snake_case and in camelCase
MultiWord(req) == DOMAIN req \ {"Name", "Prefix"}

\* C17 as stated: decoding a response that echoes a create request (GCP or
\* AWS) under snake_case or under camelCase yields a datasource equal to
\* the request field for field, unset optional fields staying nil.
C17_RoundTripEitherConvention ==
    (calc.fn \in RoundTripFns /\ calc.done /\ calc.in.conv \in {"snake_case", "camelCase"}) =>
        /\ EqualFieldForField(calc.in.req, calc.out)
        /\ UnsetStaysNil(calc.in.req, calc.out)

\* C17 amended: decoding a response that echoes a create request (GCP or
\* AWS) under the camelCase keys of the response structs yields a datasource
\* equal to the request field for field; an optional field the request left
\* unset is nil whatever the convention.  Under snake_case the client reads
\* only the keys spelled alike in both conventions (id, name, prefix): every
\* other field comes back empty or nil.  A GCP table path echoed under the
\* request's own key bqTablePath is not read either.  Only the earlier
\* GCP-only client accepts both conventions.
C17_RoundTripCamelCase ==
    (calc.fn \in RoundTripFns /\ calc.done) =>
        /\ calc.out.ID = "ds-1"
        /\ UnsetStaysNil(calc.in.req, calc.out)
        /\ calc.in.conv = "camelCase" => EqualFieldForField(calc.in.req, calc.out)
        /\ calc.fn = "gcpRoundTripV1" => EqualFieldForField(calc.in.req, calc.out)
        /\ (calc.fn # "gcpRoundTripV1" /\ calc.in.conv = "snake_case") =>
              /\ \A f \in MultiWord(calc.in.req) : IsZero(calc.out, f)
              /\ \A f \in DOMAIN calc.in.req \ MultiWord(calc.in.req) : calc.out[f] = calc.in.req[f]
        /\ (calc.fn = "gcpRoundTrip" /\ calc.in.conv = "asSent") =>
              /\ calc.out.BQURI = ""
              /\ \A f \in DOMAIN calc.in.req \ {"BQURI"} : calc.out[f] = calc.in.req[f]
        /\ (calc.fn = "awsRoundTrip" /\ calc.in.conv = "asSent") =>
              EqualFieldForField(calc.in.req, calc.out)

C17_Witness ==
    /\ calc.fn = "awsRoundTrip" /\ calc.done /\ calc.in.conv = "camelCase"
    /\ calc.in.req.EKSSplit = Ptr(FALSE) /\ calc.in.req.EKSSplitDataEnabled = Nil
    /\ calc.in.req.EndDate = Ptr("") /\ calc.in.req.StartDate = Nil
    /\ calc.out.EKSSplit = Ptr(FALSE) /\ calc.out.EKSSplitDataEnabled = Nil
    /\ calc.out.EndDate = Ptr("") /\ calc.out.StartDate = Nil
    /\ calc.out.BucketName = "my-cur-bucket"

\* the value object obj holds under key k, zero when it lacks the key
StringAt(obj, k) == IF k \in DOMAIN obj THEN obj[k] ELSE ""
SliceAt(obj, k) == IF k \in DOMAIN obj THEN obj[k] ELSE NilSlice
PtrAt(obj, k) == IF k \in DOMAIN obj THEN Ptr(obj[k]) ELSE Nil

\* v is the first populated entry of the candidates, or zero when none is
FirstPopulated(v, candidates, Populated(_), zero) ==
    /\ (\A k \in DOMAIN candidates : ~Populated(candidates[k])) => v = zero
    /\ \A k \in DOMAIN candidates :
          (Populated(candidates[k]) /\ \A j \in 1..(k - 1) : ~Populated(candidates[j])) => v = candidates[k]

NonEmpty(x) == x # ""
NonNilSlice(x) == ~x.nil
NonNil(x) == x # Nil

\* C18: each aliased field is the first populated variant in its precedence
\* order, and the zero value when none is populated.  GetServiceAccount
\* takes the service account from service_account, then serviceAccount,
\* then serviceAccountEmail (populated: not empty) and the sub ids from
\* sub_ids, then subIds (populated: present and not null; none gives the
\* empty list); the earlier GCP normalizer takes the snake_case key, then
\* the camelCase one.  A lower variant is used only when every higher one
\* is unpopulated.
C18_FirstPopulatedVariant ==
    /\ (calc.fn = "ServiceAccountResponse" /\ calc.done) =>
          /\ FirstPopulated(calc.out.ServiceAccount,
                            <<StringAt(calc.in, "service_account"), StringAt(calc.in, "serviceAccount"),
                              StringAt(calc.in, "serviceAccountEmail")>>,
                            NonEmpty, "")
          /\ ~calc.out.SubIDs.nil
          /\ FirstPopulated(calc.out.SubIDs,
                            <<SliceAt(calc.in, "sub_ids"), SliceAt(calc.in, "subIds")>>,
                            NonNilSlice, Slice(<<>>))
    /\ (calc.fn = "toGCPBillingDatasourceV1" /\ calc.done) =>
          /\ FirstPopulated(calc.out.BQTablePath,
                            <<StringAt(calc.in, "bq_table_path"), StringAt(calc.in, "bqTablePath")>>,
                            NonEmpty, "")
          /\ FirstPopulated(calc.out.IsDetailedBilling,
                            <<PtrAt(calc.in, "is_detailed_billing"), PtrAt(calc.in, "isDetailedBilling")>>,
                            NonNil, Nil)

C18_Witness ==
    /\ calc.fn = "ServiceAccountResponse" /\ calc.done
    /\ DOMAIN calc.in = {"service_account", "serviceAccountEmail", "sub_ids", "subIds"}
    /\ calc.in["service_account"] = "" /\ calc.in["serviceAccountEmail"] = "sa-email"
    /\ calc.in["sub_ids"] = NilSlice /\ calc.in["subIds"] = Slice(<<"sub-2", "sub-3">>)
    /\ calc.out = [ServiceAccount |-> "sa-email", SubIDs |-> Slice(<<"sub-2", "sub-3">>)]

\* C25: every request of a client operation, first attempt or retry, is the
\* operation's fixed (method, path, body) triple: GetServiceAccount is GET on
\* the context route with no body; validate is POST on the validate route
\* with a JSON body; create is POST on the base route with a JSON body; get
\* by id is GET and delete is DELETE on the base route followed by "/" and
\* the path-escaped id (a slash in the id is sent as %2F), with no body.
C25_FixedRequestTriple ==
    \A k \in DOMAIN wire :
        /\ wire[k] = wire[1]
        /\ op = "GetServiceAccount" =>
              (wire[k].method = "GET" /\ wire[k].path = <<"/terraform/">> /\ ~wire[k].hasBody)
        /\ op \in ValidateOps =>
              /\ wire[k].method = "POST" /\ wire[k].path = <<"/terraform/billingDatasources/validate">>
              /\ wire[k].hasBody /\ HasHeader(wire[k], "Content-Type", "application/json")
        /\ op \in CreateOps =>
              /\ wire[k].method = "POST" /\ wire[k].path = <<"/terraform/billingDatasources">>
              /\ wire[k].hasBody /\ HasHeader(wire[k], "Content-Type", "application/json")
        /\ op \in ByIDOps =>
              /\ wire[k].method = (IF op = "DeleteBillingDatasource" THEN "DELETE" ELSE "GET")
              /\ Len(wire[k].path) = 3
              /\ wire[k].path[1] = "/terraform/billingDatasources" /\ wire[k].path[2] = "/"
              /\ id = "ds-1" => wire[k].path[3] = "ds-1"
              /\ id = "ds/2" => wire[k].path[3] = "ds%2F2"
              /\ ~wire[k].hasBody

C25_Witness ==
    /\ op = "DeleteBillingDatasource" /\ id = "ds/2" /\ Len(wire) = 3
    /\ wire[3] = [method |-> "DELETE", path |-> <<"/terraform/billingDatasources", "/", "ds%2F2">>,
                  hasBody |-> FALSE, header |-> wire[3].header]

\* C28: when the backend answers all 4 attempts of a call with 5xx, the
\* client operation, whichever it is, returns no value and the
\* unexpected-status error made of the status code and the body of the 4th
\* response, also when an earlier response had another status or body.
C28_LastServerErrorSurfaces ==
    (op \in ClientOps /\ FourAttempts5xx) =>
        /\ pc = "returned"
        /\ out.val = NoVal
        /\ out.err # NilErr
        /\ out.err.kind = "unexpected status code"
        /\ out.err.code = resps[4].status
        /\ out.err.body = resps[4].body

C28_Witness ==
    /\ op = "GetServiceAccount" /\ FourAttempts5xx /\ pc = "returned"
    /\ resps[1].status = 500 /\ resps[2].status = 500 /\ resps[3].status = 500
    /\ resps[4] = [status |-> 503, body |-> EmptyBody]
    /\ out.err = [kind |-> "unexpected status code", code |-> 503, body |-> EmptyBody]

\* C29: a read by id (GCP or AWS) that succeeds returns a non-empty ID: the
\* requested id when the 200 body carries no id or an empty one, and the
\* body's id when it carries one, also when that differs from the requested
\* id.
C29_ReadNeverReturnsEmptyID ==
    (pc = "returned" /\ op \in GetOps /\ out.err = NilErr) =>
        /\ id # ""
        /\ ret.status = 200
        /\ out.val.ID # ""
        /\ ret.body.f.id \in {Absent, ""} => out.val.ID = id
        /\ ret.body.f.id \notin {Absent, ""} => out.val.ID = ret.body.f.id

C29_Witness ==
    /\ pc = "returned" /\ op = "GetAWSBillingDatasource" /\ id = "ds/2"
    /\ ret.status = 200 /\ ret.body = ObjBody([NoFields EXCEPT !.status = "ACTIVE"])
    /\ out.err = NilErr /\ out.val.ID = "ds/2"

\* C23 as stated: a call whose every attempt is answered with 5xx has slept
\* 7500 ms in backoff waits when it gives up.
C23_WorstCaseBackoff7500 ==
    (FourAttempts5xx /\ ~ctxDone /\ pc = "returned") => TotalBackoff(waits) = 7500

\* C23 amended: the wait that follows attempt k (0-based) lasts 500 ms * 2^k
\* and only attempts 0, 1 and 2 are followed by a wait, so a call never
\* sleeps more than 500 + 1000 + 2000 = 3500 ms in backoff; it sleeps exactly
\* that long when all 4 attempts are answered with 5xx and the context stays
\* live.
C23_WorstCaseBackoff3500 ==
    /\ \A k \in DOMAIN waits :
          /\ waits[k] = k - 1
          /\ k <= 3
          /\ backoff(waits[k]) = (CASE k = 1 -> 500 [] k = 2 -> 1000 [] k = 3 -> 2000)
    /\ TotalBackoff(waits) <= 3500
    /\ (FourAttempts5xx /\ ~ctxDone) => (pc = "returned" /\ TotalBackoff(waits) = 3500)

C23_Witness ==
    /\ FourAttempts5xx /\ ~ctxDone /\ pc = "returned"
    /\ waits = <<0, 1, 2>>
    /\ TotalBackoff(waits) = 3500

\* the validate POSTs the current call has sent
ValidatePosts ==
    { k \in DOMAIN wire :
        wire[k].method = "POST" /\ wire[k].path = <<routeBillingDatasourceValidate>> }

\* C26: in gcpResource.Create the validate call precedes the create call: a
\* create POST is sent only once ValidateGCPBillingDatasource has returned
\* without error, and while validation runs or after it failed no create
\* request has been sent; a failed validation ends the handler with an error
\* diagnostic and without a state.
C26_ValidateBeforeCreate ==
    handler = "gcpResource.Create" =>
        /\ op \in {"none", "ValidateGCPBillingDatasource", "CreateGCPBillingDatasource"}
        /\ CreatePosts # {} => op = "CreateGCPBillingDatasource"
        /\ op = "CreateGCPBillingDatasource" =>
              /\ trail = << [op |-> "ValidateGCPBillingDatasource", out |-> Result(NoVal, NilErr)] >>
              /\ ValidatePosts = {}
              /\ CreatePosts = DOMAIN wire
        /\ op = "ValidateGCPBillingDatasource" =>
              /\ trail = <<>>
              /\ CreatePosts = {}
              /\ pc = "returned" =>
                    /\ out.err # NilErr
                    /\ HasError(diags)
                    /\ tfstate = NoState /\ ~tfstate.tracked

C26_Witness ==
    /\ handler = "gcpResource.Create" /\ op = "ValidateGCPBillingDatasource" /\ pc = "returned"
    /\ ret.err = NilErr /\ ret.status = 403 /\ Len(wire) = 1
    /\ diags = { [severity |-> "error", summary |-> "Unable to validate GCP billing datasource"] }
    /\ tfstate = NoState

\* the state attribute a response's status pointer is stored as
StatusAttr(p) == IF p = Nil THEN AttrNull("") ELSE AttrValue(p[1])

\* awsResource.Create has returned after its create call succeeded
AWSCreateRefreshed ==
    handler = "awsResource.Create" /\ pc = "returned" /\ trail # <<>>

\* C27 as stated: in awsResource.Create, once the create call has succeeded
\* the state is written with the created ID whatever the refresh read
\* returns; a refresh failure raises a warning, never an error, and keeps the
\* create response's values; a successful refresh overwrites the status.
C27_StateAlwaysHasCreatedID ==
    AWSCreateRefreshed =>
        /\ tfstate.tracked
        /\ tfstate.ID = trail[1].out.val.ID
        /\ ~HasError(diags)
        /\ out.err # NilErr => tfstate.Status = StatusAttr(trail[1].out.val.Status)
        /\ out.err = NilErr => tfstate.Status = StatusAttr(out.val.Status)

\* C27 amended: in awsResource.Create, once the create call has succeeded the
\* created id is read back and the state is always written, without an error
\* diagnostic.  When the refresh read fails (not-found or any other failure)
\* exactly one warning is raised and the state holds the created ID and the
\* create response's status.  When it succeeds no diagnostic is raised and
\* the state holds the status observed by the read (null when the read shows
\* none) and the ID the read returned: the created ID, unless the read's body
\* carries another non-empty id, which then replaces it.  A failed create
\* raises an error and writes no state.
C27_RefreshFailureIsWarning ==
    /\ AWSCreateRefreshed =>
          /\ op = "GetAWSBillingDatasource"
          /\ trail = << [op |-> "CreateAWSBillingDatasource", out |-> Result(trail[1].out.val, NilErr)] >>
          /\ trail[1].out.val.ID \in IDs
          /\ id = trail[1].out.val.ID
          /\ tfstate.tracked
          /\ ~HasError(diags)
          /\ out.err # NilErr =>
                /\ Cardinality(diags) = 1
                /\ \A d \in diags :
                      /\ d.severity = "warning"
                      /\ d.summary = (IF out.err = ErrNotFound THEN "Created datasource not yet readable"
                                      ELSE "Unable to refresh datasource after create")
                /\ tfstate.ID = trail[1].out.val.ID
                /\ tfstate.Status = StatusAttr(trail[1].out.val.Status)
          /\ out.err = NilErr =>
                /\ diags = {}
                /\ tfstate.ID = out.val.ID
                /\ tfstate.Status = StatusAttr(out.val.Status)
                /\ tfstate.ID # trail[1].out.val.ID =>
                      (ret.body.f.id = tfstate.ID /\ ret.body.f.id \in IDs)
    /\ (handler = "awsResource.Create" /\ pc = "returned" /\ op = "CreateAWSBillingDatasource") =>
          /\ out.err # NilErr
          /\ HasError(diags)
          /\ tfstate = NoState

C27_Witness ==
    /\ AWSCreateRefreshed
    /\ trail[1].out.val = [ID |-> "ds-1", Status |-> Ptr("PENDING")]
    /\ ret.err = NilErr /\ ret.status = 404 /\ out.err = ErrNotFound
    /\ diags = { [severity |-> "warning", summary |-> "Created datasource not yet readable"] }
    /\ tfstate = [tracked |-> TRUE, ID |-> "ds-1", Status |-> AttrValue("PENDING")]

\* the fields of a datasource that are plain strings; the others a model
\* holds are pointers
PlainStrings == {"ID", "Name", "BQTablePath", "BucketName", "RoleARN", "Prefix"}

\* field f of datasource api is populated: a plain string that is not
\* empty, a pointer that is not nil
Populated(api, f) == IF f \in PlainStrings THEN api[f] # "" ELSE api[f] # Nil

\* the value of a populated field
ValueOf(api, f) == IF f \in PlainStrings THEN api[f] ELSE api[f][1]

\* the fields of a datasource that are pointers to strings
StringPointers == {"Status", "StartDate", "EndDate"}

\* field f of datasource api is empty or absent: an empty string, a nil
\* pointer, or a pointer to an empty string
EmptyOrAbsent(api, f) ==
    IF f \in PlainStrings THEN api[f] = ""
    ELSE IF f \in StringPointers THEN (api[f] = Nil \/ api[f] = Ptr(""))
    ELSE api[f] = Nil

\* C30 as stated: a field that is empty or absent in the response leaves
\* the model's field unchanged (the AWS status, set to null when the
\* response has none, excepted), and a field populated in the response
\* overwrites it.
C30_EmptyFieldNeverOverwrites ==
    (calc.fn \in ReadHandlers /\ calc.done) =>
        \A f \in DOMAIN calc.in.m :
            IF EmptyOrAbsent(calc.in.api, f)
            THEN IF calc.fn = "awsResource.Read" /\ f = "Status"
                 THEN calc.out.merged[f] = AttrNull("")
                 ELSE calc.out.merged[f] = calc.in.m[f]
            ELSE calc.out.merged[f] = AttrValue(ValueOf(calc.in.api, f))

\* C30 amended: merging a response into the resource model changes only
\* the fields the response populates, each to the response's value; a plain
\* string (id, name, kind identifiers) is populated when it is not empty, and
\* an optional field when it is present, so that an optional field present
\* as false or as the empty string does overwrite a known value.  Every
\* other field is left as it was, known, null or unknown; the one exception
\* is the AWS status, null after the merge whenever the response has none.
C30_OnlyPopulatedFieldsOverwrite ==
    (calc.fn \in ReadHandlers /\ calc.done) =>
        /\ DOMAIN calc.out.merged = DOMAIN calc.in.m
        /\ \A f \in DOMAIN calc.in.m :
              IF Populated(calc.in.api, f)
              THEN calc.out.merged[f] = AttrValue(ValueOf(calc.in.api, f))
              ELSE IF calc.fn = "awsResource.Read" /\ f = "Status"
              THEN calc.out.merged[f] = AttrNull("")
              ELSE calc.out.merged[f] = calc.in.m[f]

C30_Witness ==
    /\ calc.fn = "awsResource.Read" /\ calc.done
    /\ calc.in.m.Status = AttrValue("PENDING") /\ calc.in.api.Status = Nil
    /\ calc.in.m.ID = AttrValue("ds-1") /\ calc.in.api.ID = ""
    /\ calc.in.api.Name = "" /\ calc.in.api.BucketName = "other-bucket"
    /\ calc.in.api.EKSSplitDataEnabled = Ptr(FALSE) /\ calc.in.api.EndDate = Ptr("")
    /\ calc.in.api.StartDate = Nil
    /\ calc.out.merged.Status = AttrNull("")
    /\ calc.out.merged.ID = AttrValue("ds-1") /\ calc.out.merged.Name = AttrValue("billing")
    /\ calc.out.merged.BucketName = AttrValue("other-bucket")
    /\ calc.out.merged.EKSSplitDataEnabled = AttrValue(FALSE)
    /\ calc.out.merged.EndDate = AttrValue("")
    /\ calc.out.merged.StartDate = AttrValue("2024-01-01")

\* the number of bytes of a stream
RECURSIVE Size(_)
Size(stream) == IF stream = <<>> THEN 0 ELSE Head(stream).n + Size(Tail(stream))

\* u holds the first Size(u) bytes of t
IsPrefix(u, t) ==
    \/ u = <<>>
    \/ /\ Len(u) <= Len(t)
       /\ \A k \in 1..(Len(u) - 1) : u[k] = t[k]
       /\ u[Len(u)].byte = t[Len(u)].byte
       /\ u[Len(u)].n >= 1 /\ u[Len(u)].n <= t[Len(u)].n

\* C24: the body doJSON reads from a response never exceeds 1 MiB (1048576
\* bytes): of a body longer than that exactly its first 1048576 bytes are
\* returned, and a body of at most 1048576 bytes is returned whole.
C24_BodyCappedAtOneMiB ==
    (calc.fn = "io.ReadAll" /\ calc.done) =>
        /\ Size(calc.out) <= 1048576
        /\ IsPrefix(calc.out, calc.in)
        /\ Size(calc.in) > 1048576 => Size(calc.out) = 1048576
        /\ Size(calc.in) <= 1048576 => calc.out = calc.in

C24_Witness ==
    /\ calc.fn = "io.ReadAll" /\ calc.done
    /\ calc.in = <<Run("a", 1048575), Run("b", 1048576), Run("a", 1)>>
    /\ calc.out = <<Run("a", 1048575), Run("b", 1)>>

\* C21: reads are idempotent and free of side effects.  A read by id sends
\* only GET requests without a body.  A read repeated against an unchanged
\* backend sends the same requests and returns an equal result, and by a
\* resource Read it raises the same diagnostics and hands back the same
\* state.  Applying the tail of a resource Read to the state a first Read
\* left, with the same datasource, leaves that state as it is.
C21_ReadsIdempotent ==
    /\ op \in GetOps =>
          \A k \in DOMAIN wire : wire[k].method = "GET" /\ ~wire[k].hasBody
    /\ (calc.fn = "backend" /\ calc.done /\ pc = "returned") =>
          /\ wire = calc.out.wire
          /\ out = calc.out.out
          /\ diags = calc.out.diags
          /\ tfstate = calc.out.tfstate
    /\ (calc.fn \in ReadHandlers /\ calc.done) =>
          calc.out.reread = calc.out.read

C21_Witness ==
    /\ calc.fn = "backend" /\ calc.done /\ pc = "returned"
    /\ handler = "awsResource.Read" /\ id = "ds-1"
    /\ calc.in = [status |-> 200, body |-> ObjBody([NoFields EXCEPT !.status = "ACTIVE"])]
    /\ Len(wire) = 1 /\ wire[1].method = "GET"
    /\ out = calc.out.out /\ out.err = NilErr /\ out.val.ID = "ds-1"
    /\ tfstate = [tracked |-> TRUE, ID |-> "ds-1", Status |-> AttrValue("ACTIVE")]
    /\ tfstate = calc.out.tfstate

\* what operation f.op, run alone, comes to when the responses to its
\* requests are f.resps: one request per response and one more while it
\* waits for an answer, all of them the request of f.op; a retry after every
\* response but the last, each of those a 5xx; the outcome read from the
\* last response
AsIfAlone(f) ==
    LET n == Len(f.resps)
        sent == IF f.pc = "inflight" THEN n + 1 ELSE n
        retried == IF f.pc = "returned" THEN n - 1 ELSE n
    IN  /\ f.wire = [k \in 1..sent |-> NewRequest(f.op, f.id)]
        /\ f.attempt = sent - 1
        /\ f.waits = [k \in 1..retried |-> k - 1]
        /\ \A k \in 1..retried : IsServerError(f.resps[k].status)
        /\ retried < maxRetryAttempts
        /\ f.pc = "returned" =>
              /\ IsServerError(f.resps[n].status) => n = maxRetryAttempts
              /\ f.ret = DoJSONReturn(f.resps[n].body, f.resps[n].status, NilErr)
              /\ f.out = ClientOp(f.op, f.id, f.ret)

\* C22: the client holds no shared mutable state.  When two operations run
\* at once on one Client, under every interleaving of their requests, waits
\* and responses, the attempt count, the requests sent and the outcome of
\* each are those of the operation run alone with the responses its own
\* requests got.
C22_ConcurrentCallsIndependent ==
    /\ pc # "idle" => AsIfAlone(Locals)
    /\ parked.pc # "idle" => AsIfAlone(parked)

C22_Witness ==
    /\ op = "GetAWSBillingDatasource" /\ pc = "returned" /\ attempt = 3
    /\ out.err.kind = "unexpected status code" /\ out.err.code = 503
    /\ parked.op = "DeleteBillingDatasource" /\ parked.pc = "backoff" /\ parked.attempt = 1
    /\ parked.resps[1].status = 503 /\ parked.resps[2].status = 500
    /\ resps[1].status = 500

====
